---------------------------- MODULE Spec2Model ----------------------------
(***************************************************************************)
(* Model of the Miro MCP server's frame extraction tools                   *)
(* (frame_to_mermaid and frame_to_erd of src/unnamed/part_003).            *)
(*                                                                         *)
(* Conventions of the model                                                *)
(*  - An item id is a positive integer; 0 stands for a missing id          *)
(*    (undefined / null / empty string, all falsy in the source).          *)
(*  - An optional number (position.x, geometry.width, ...) is <<>> when    *)
(*    the field is missing or not of type number and <<v>> otherwise.      *)
(*  - A text is a sequence of one-character strings; "" fields of the      *)
(*    source (missing, null, empty) are the empty sequence.                *)
(*  - Bounding boxes keep left/right/top/bottom in half units (2x - w,     *)
(*    2x + w, ...), so x - width/2 stays an integer; width and height are  *)
(*    kept as given. Threshold tests are cross-multiplied (a >= 0.8 * b    *)
(*    is 10a >= 8b).                                                       *)
(***************************************************************************)
EXTENDS Integers, Sequences, FiniteSets, TLC

\* ------------------------------------------------------------------------
\* Generic helpers
\* ------------------------------------------------------------------------

Min2(a, b) == IF a <= b THEN a ELSE b

Max2(a, b) == IF a >= b THEN a ELSE b

Abs(a) == IF a >= 0 THEN a ELSE -a

Range(s) == {s[i] : i \in 1..Len(s)}

RECURSIVE FlattenSeq(_)
FlattenSeq(ss) == IF ss = <<>> THEN <<>> ELSE Head(ss) \o FlattenSeq(Tail(ss))

\* Array.prototype.sort with comparator (a, b) => a.key - b.key on a sequence
\* of records with a key field: stable (ECMAScript 2019), so equal keys keep
\* their order. s[n] is inserted after every element whose key is <= its own.
RECURSIVE StableSortByKey(_)
StableSortByKey(s) ==
    IF Len(s) <= 1 THEN s
    ELSE LET n == Len(s)
             init == StableSortByKey(SubSeq(s, 1, n - 1))
             x == s[n]
             k == Cardinality({i \in 1..(n - 1) : init[i].key <= x.key})
         IN SubSeq(init, 1, k) \o <<x>> \o SubSeq(init, k + 1, n - 1)

\* ------------------------------------------------------------------------
\* htmlToPlain / plainSnippet (part_003 lines 525-555)
\* ------------------------------------------------------------------------

WhiteSpace == {" ", "\n", "\t", "\r"}

\* Does the literal lit (a sequence of characters) occur in s at position i?
\* ci: compare case-insensitively (the literal is given in lower case and
\* upper in upper case).
LitAt(s, i, lit, upper, ci) ==
    /\ i + Len(lit) - 1 <= Len(s)
    /\ \A k \in 1..Len(lit) :
          \/ s[i + k - 1] = lit[k]
          \/ ci /\ s[i + k - 1] = upper[k]

\* Number of whitespace characters of s starting at position i (\s* greedy).
RECURSIVE SpaceRun(_, _)
SpaceRun(s, i) ==
    IF i <= Len(s) /\ s[i] \in WhiteSpace THEN 1 + SpaceRun(s, i + 1) ELSE 0

\* /&(amp|lt|gt|quot|#39);/g with entityMap
EntityNames ==
    << <<"&", "a", "m", "p", ";">>, <<"&", "l", "t", ";">>, <<"&", "g", "t", ";">>,
       <<"&", "q", "u", "o", "t", ";">>, <<"&", "#", "3", "9", ";">> >>

EntityChars == << "&", "<", ">", "\"", "'" >>

EntityIndex(s, i) ==
    LET hits == {e \in 1..Len(EntityNames) : LitAt(s, i, EntityNames[e], EntityNames[e], FALSE)}
    IN IF hits = {} THEN 0 ELSE CHOOSE e \in hits : TRUE

EntityMatchLen(s, i) ==
    IF EntityIndex(s, i) = 0 THEN 0 ELSE Len(EntityNames[EntityIndex(s, i)])

EntityRepl(s, i) == <<EntityChars[EntityIndex(s, i)]>>

\* /<br\s*\/?>(\s*)/gi -> '\n'
BrMatchLen(s, i) ==
    IF ~LitAt(s, i, <<"<", "b", "r">>, <<"<", "B", "R">>, TRUE) THEN 0
    ELSE LET j == i + 3 + SpaceRun(s, i + 3)
             k == IF j <= Len(s) /\ s[j] = "/" THEN j + 1 ELSE j
         IN IF k <= Len(s) /\ s[k] = ">"
            THEN (k - i + 1) + SpaceRun(s, k + 1)
            ELSE 0

\* /<p>/gi -> ''
POpenMatchLen(s, i) ==
    IF LitAt(s, i, <<"<", "p", ">">>, <<"<", "P", ">">>, TRUE) THEN 3 ELSE 0

\* /<\/p>/gi -> '\n'
PCloseMatchLen(s, i) ==
    IF LitAt(s, i, <<"<", "/", "p", ">">>, <<"<", "/", "P", ">">>, TRUE) THEN 4 ELSE 0

\* /<[^>]+>/g -> '': "<", at least one character other than ">", then ">"
TagMatchLen(s, i) ==
    IF i > Len(s) \/ s[i] # "<" THEN 0
    ELSE LET closes == {k \in (i + 1)..Len(s) : s[k] = ">"}
         IN IF closes = {} THEN 0
            ELSE LET k == CHOOSE c \in closes : \A d \in closes : c <= d
                 IN IF k >= i + 2 THEN k - i + 1 ELSE 0

\* /\s+/g -> ' '
SpaceMatchLen(s, i) == SpaceRun(s, i)

\* String.prototype.trim (after the whitespace runs became single blanks)
RECURSIVE Trim(_)
Trim(s) ==
    IF s = <<>> THEN s
    ELSE IF Head(s) \in WhiteSpace THEN Trim(Tail(s))
    ELSE IF s[Len(s)] \in WhiteSpace THEN Trim(SubSeq(s, 1, Len(s) - 1))
    ELSE s

\* The pattern of each String.prototype.replace(/re/g, ...) of htmlToPlain:
\* the length of its match at position i (0: no match) and its replacement.
MatchLen(re, s, i) ==
    CASE re = "entity" -> EntityMatchLen(s, i)
      [] re = "br" -> BrMatchLen(s, i)
      [] re = "p" -> POpenMatchLen(s, i)
      [] re = "/p" -> PCloseMatchLen(s, i)
      [] re = "tag" -> TagMatchLen(s, i)
      [] re = "space" -> SpaceMatchLen(s, i)

Replacement(re, s, i) ==
    CASE re = "entity" -> EntityRepl(s, i)
      [] re = "br" -> <<"\n">>
      [] re = "p" -> <<>>
      [] re = "/p" -> <<"\n">>
      [] re = "tag" -> <<>>
      [] re = "space" -> <<" ">>

\* Left-to-right, non-overlapping String.prototype.replace(/re/g, ...).
RECURSIVE ReplaceAll(_, _, _)
ReplaceAll(re, s, i) ==
    IF i > Len(s) THEN <<>>
    ELSE LET n == MatchLen(re, s, i)
         IN IF n > 0
            THEN Replacement(re, s, i) \o ReplaceAll(re, s, i + n)
            ELSE <<s[i]>> \o ReplaceAll(re, s, i + 1)

htmlToPlain(textHtml) ==
    IF textHtml = <<>> THEN <<>>
    ELSE LET t1 == ReplaceAll("entity", textHtml, 1)
             t2 == ReplaceAll("br", t1, 1)
             t3 == ReplaceAll("p", t2, 1)
             t4 == ReplaceAll("/p", t3, 1)
             t5 == ReplaceAll("tag", t4, 1)
             t6 == ReplaceAll("space", t5, 1)
         IN Trim(t6)

\* base.length <= maxLen ? base : base.slice(0, maxLen)
truncate(base, maxLen) == IF Len(base) <= maxLen THEN base ELSE SubSeq(base, 1, maxLen)

plainSnippet(textHtml, maxLen) == truncate(htmlToPlain(textHtml), maxLen)

\* a || b on texts
orElse(a, b) == IF a # <<>> THEN a ELSE b

\* ------------------------------------------------------------------------
\* frame_to_mermaid: nodes (part_003 lines 2226-2250, 2290-2331)
\* ------------------------------------------------------------------------

\* The text of an item id (ids are strings of digits in the source).
DigitChars == <<"0", "1", "2", "3", "4", "5", "6", "7", "8", "9">>

RECURSIVE IdText(_)
IdText(id) ==
    IF id < 10 THEN <<DigitChars[id + 1]>>
    ELSE IdText(id \div 10) \o <<DigitChars[(id % 10) + 1]>>

LabelMax == 80

CaptionMax == 40

nodeTypes == {"shape", "sticky_note", "card"}

IsNodeItem(it) == it.type \in nodeTypes

nodeItemsOf(frameItems) == SelectSeq(frameItems, IsNodeItem)

\* labelSource = data.title || data.content || ''; plainSnippet(labelSource || id, 80);
\* an empty label falls back to the id.
labelOf(it) ==
    orElse(plainSnippet(orElse(orElse(it.title, it.content), IdText(it.id)), LabelMax),
           IdText(it.id))

IsNum(v) == v # <<>>

NoBBox == [ok |-> FALSE, left |-> 0, right |-> 0, top |-> 0, bottom |-> 0,
           width |-> 0, height |-> 0]

\* A variant of computeItemBBox that reads a missing number as 0 instead of
\* giving up.
computeItemBBoxLenient(item) ==
    LET num(v) == IF IsNum(v) THEN v[1] ELSE 0
        x == IF IsNum(item.posX) THEN item.posX[1] ELSE num(item.geoX)
        y == IF IsNum(item.posY) THEN item.posY[1] ELSE num(item.geoY)
    IN [ok |-> TRUE,
        left |-> 2 * x - num(item.width), right |-> 2 * x + num(item.width),
        top |-> 2 * y - num(item.height), bottom |-> 2 * y + num(item.height),
        width |-> num(item.width), height |-> num(item.height)]

\* x is position.x when that is a number and geometry.x otherwise (same for y);
\* undefined unless x, y, width and height are numbers.
computeItemBBox(item) ==
    LET x == IF IsNum(item.posX) THEN item.posX ELSE item.geoX
        y == IF IsNum(item.posY) THEN item.posY ELSE item.geoY
    IN IF ~IsNum(x) \/ ~IsNum(y) \/ ~IsNum(item.width) \/ ~IsNum(item.height)
       THEN NoBBox
       ELSE [ok |-> TRUE,
             left |-> 2 * x[1] - item.width[1], right |-> 2 * x[1] + item.width[1],
             top |-> 2 * y[1] - item.height[1], bottom |-> 2 * y[1] + item.height[1],
             width |-> item.width[1], height |-> item.height[1]]

\* style.fillColor || style.cardTheme || style.backgroundColor || undefined
getItemColor(item) ==
    IF item.fillColor # "" THEN item.fillColor
    ELSE IF item.cardTheme # "" THEN item.cardTheme
    ELSE item.backgroundColor

\* Map.set in a loop: the entry of an id is that of the last item that has it.
lastIndexOf(nodeItems, id) ==
    CHOOSE i \in 1..Len(nodeItems) :
        nodeItems[i].id = id /\ \A j \in (i + 1)..Len(nodeItems) : nodeItems[j].id # id

\* The tables the handler fills from the node items: nodes, nodeIds (ids),
\* idToAlias (alias; the alias n<k> is kept as k), idToBBox (box; NoBBox where
\* the map has no entry) and each item's colour.
nodeTables(nodeItems) ==
    [ids |-> [i \in 1..Len(nodeItems) |-> nodeItems[i].id],
     nodes |-> [i \in 1..Len(nodeItems) |->
                  [id |-> nodeItems[i].id, alias |-> i, type |-> nodeItems[i].type,
                   label |-> labelOf(nodeItems[i])]],
     alias |-> [id \in {nodeItems[i].id : i \in 1..Len(nodeItems)} |->
                  lastIndexOf(nodeItems, id)],
     box |-> [id \in {nodeItems[i].id : i \in 1..Len(nodeItems)} |->
                computeItemBBox(nodeItems[lastIndexOf(nodeItems, id)])],
     color |-> [id \in {nodeItems[i].id : i \in 1..Len(nodeItems)} |->
                  getItemColor(nodeItems[lastIndexOf(nodeItems, id)])]]

\* idToAlias.get(id); 0: undefined
idToAlias(t, id) == IF id \in DOMAIN t.alias THEN t.alias[id] ELSE 0

\* idToBBox.get(id); NoBBox: undefined
idToBBox(t, id) == IF id \in DOMAIN t.box THEN t.box[id] ELSE NoBBox

boxArea(box) == box.width * box.height

\* ------------------------------------------------------------------------
\* frame_to_mermaid: size and colour statistics (part_003 lines 2343-2377)
\* ------------------------------------------------------------------------

\* areas.sort((a, b) => a - b); areas[Math.floor(areas.length / 2)], 0 when empty
medianAreaOf(t) ==
    LET boxed == SelectSeq(t.ids, LAMBDA id : t.box[id].ok)
        sorted == StableSortByKey([i \in 1..Len(boxed) |-> [key |-> boxArea(t.box[boxed[i]])]])
    IN IF Len(boxed) = 0 THEN 0 ELSE sorted[(Len(boxed) \div 2) + 1].key

RegionFactor == 3

regionThresholdOf(medianArea) == IF medianArea > 0 THEN medianArea * RegionFactor ELSE 0

RECURSIVE sumAreas(_, _)
sumAreas(t, ids) ==
    IF ids = <<>> THEN 0 ELSE boxArea(t.box[Head(ids)]) + sumAreas(t, Tail(ids))

\* colorStats: per colour, in order of first appearance, the total area of the
\* boxed nodes that have it.
colorStatsOf(t) ==
    LET coloured == SelectSeq(t.ids, LAMBDA id : t.box[id].ok /\ t.color[id] # "")
        firsts == SelectSeq([i \in 1..Len(coloured) |-> i],
                            LAMBDA i : \A j \in 1..(i - 1) : t.color[coloured[j]] # t.color[coloured[i]])
    IN [k \in 1..Len(firsts) |->
          [color |-> t.color[coloured[firsts[k]]],
           totalArea |-> sumAreas(t, SelectSeq(coloured, LAMBDA id :
                                        t.color[id] = t.color[coloured[firsts[k]]]))]]

\* colorEntries: the stats sorted by totalArea descending (stable)
colorEntriesOf(stats) ==
    StableSortByKey([k \in 1..Len(stats) |->
                        [key |-> -stats[k].totalArea, color |-> stats[k].color,
                         totalArea |-> stats[k].totalArea]])

\* regionColors: the colours up to the first whose total is below 0.3 x the top's
regionColorsOf(colorEntries) ==
    {colorEntries[k].color :
        k \in {j \in 1..Len(colorEntries) :
                  \A m \in 1..j : 10 * colorEntries[m].totalArea >= 3 * colorEntries[1].totalArea}}

withRegionStats(t) ==
    t @@ [medianArea |-> medianAreaOf(t),
          regionColors |-> regionColorsOf(colorEntriesOf(colorStatsOf(t)))]

\* ------------------------------------------------------------------------
\* frame_to_mermaid: containment (part_003 lines 2379-2444)
\* ------------------------------------------------------------------------

\* A variant of passesParentFilters without the minScale test.
passesParentFiltersAnyScale(t, parentId, childId) ==
    LET parentBox == t.box[parentId]
        childBox == t.box[childId]
        parentIsRegionColor == t.color[parentId] # "" /\ t.color[parentId] \in t.regionColors
        interWidth == Min2(parentBox.right, childBox.right) - Max2(parentBox.left, childBox.left)
        interHeight == Min2(parentBox.bottom, childBox.bottom) - Max2(parentBox.top, childBox.top)
        requiredFrac10 == IF parentIsRegionColor THEN 6 ELSE 8
    IN /\ parentId # childId
       /\ parentBox.ok
       /\ ~(t.color[parentId] # "" /\ t.color[childId] # "" /\ t.color[parentId] = t.color[childId])
       /\ interWidth > 0
       /\ interHeight > 0
       /\ 10 * interWidth * interHeight >= requiredFrac10 * 4 * boxArea(childBox)

\* The filters of the inner loop for candidate parentId of childId (whose box
\* exists): not the child itself, has a box, not the same colour, at least
\* minScale times as wide and as high, and covering the required fraction of
\* the child's area.
passesParentFilters(t, parentId, childId) ==
    LET parentBox == t.box[parentId]
        childBox == t.box[childId]
        parentIsRegionColor == t.color[parentId] # "" /\ t.color[parentId] \in t.regionColors
        minScale100 == IF parentIsRegionColor THEN 102 ELSE 105
        interWidth == Min2(parentBox.right, childBox.right) - Max2(parentBox.left, childBox.left)
        interHeight == Min2(parentBox.bottom, childBox.bottom) - Max2(parentBox.top, childBox.top)
        requiredFrac10 == IF parentIsRegionColor THEN 6 ELSE 8
    IN /\ parentId # childId
       /\ parentBox.ok
       /\ ~(t.color[parentId] # "" /\ t.color[childId] # "" /\ t.color[parentId] = t.color[childId])
       /\ ~(\/ 100 * parentBox.width < childBox.width * minScale100
            \/ 100 * parentBox.height < childBox.height * minScale100)
       /\ interWidth > 0
       /\ interHeight > 0
       \* fracInside = (interWidth/2 * interHeight/2) / childArea >= requiredFrac
       /\ 10 * interWidth * interHeight >= requiredFrac10 * 4 * boxArea(childBox)

\* A variant of smallestFirst that keeps the first candidate whatever its area.
firstCandidate(t, cands) == IF cands = <<>> THEN 0 ELSE cands[1]

\* The first of the candidates of the smallest area (parentArea < bestParentArea
\* replaces the best); 0 (null) when there is none.
smallestFirst(t, cands) ==
    IF cands = <<>> THEN 0
    ELSE cands[CHOOSE i \in 1..Len(cands) :
                  /\ \A j \in 1..Len(cands) : boxArea(t.box[cands[i]]) <= boxArea(t.box[cands[j]])
                  /\ \A j \in 1..(i - 1) : boxArea(t.box[cands[j]]) > boxArea(t.box[cands[i]])]

\* bestParentId of childId
bestParentOf(t, childId) ==
    smallestFirst(t, SelectSeq(t.ids, LAMBDA p : passesParentFilters(t, p, childId)))

\* parentOf: set for every node that has a box, to its best parent or 0 (null).
withContainment(t) ==
    t @@ [parentOf |-> [id \in {c \in DOMAIN t.box : t.box[c].ok} |-> bestParentOf(t, id)]]

\* parentOf.get(id): 0 for null and for undefined
parentGet(t, id) == IF id \in DOMAIN t.parentOf THEN t.parentOf[id] ELSE 0

\* childrenOf.get(parentId): the children in the order the child loop pushed them
childrenGet(t, parentId) == SelectSeq(t.ids, LAMBDA c : parentGet(t, c) = parentId)

\* childrenOf.keys(): the parents in the order of their first child
childrenKeys(t) ==
    LET firsts == SelectSeq([i \in 1..Len(t.ids) |-> i], LAMBDA i :
                      /\ parentGet(t, t.ids[i]) # 0
                      /\ \A j \in 1..(i - 1) : parentGet(t, t.ids[j]) # parentGet(t, t.ids[i]))
    IN [k \in 1..Len(firsts) |-> parentGet(t, t.ids[firsts[k]])]

\* childrenOf.has(id)
childrenHas(t, id) == \E c \in DOMAIN t.parentOf : t.parentOf[c] = id

\* ------------------------------------------------------------------------
\* frame_to_mermaid: explicit edges (part_003 lines 2253-2285)
\* ------------------------------------------------------------------------

\* The caption label of a connector: captions[0].content cleaned to maxLen
\* characters, <<>> when there is none.
captionLabel(c, maxLen) ==
    IF c.caption # <<>> THEN plainSnippet(c.caption, maxLen) ELSE <<>>

\* A variant of IsExplicitEdge that asks for the start node only.
IsExplicitEdgeFromStart(t, c) ==
    /\ c.startItem # 0
    /\ idToAlias(t, c.startItem) # 0

\* Does the connector get an edge: both ends given, and both nodes?
IsExplicitEdge(t, c) ==
    /\ c.startItem # 0
    /\ c.endItem # 0
    /\ idToAlias(t, c.startItem) # 0
    /\ idToAlias(t, c.endItem) # 0

explicitEdgeOf(t, c) ==
    [fromId |-> c.startItem, toId |-> c.endItem,
     fromAlias |-> idToAlias(t, c.startItem), toAlias |-> idToAlias(t, c.endItem),
     connectorId |-> c.id, inferred |-> FALSE,
     label |-> captionLabel(c, CaptionMax)]

RECURSIVE explicitEdges(_, _)
explicitEdges(t, allConnectors) ==
    IF allConnectors = <<>> THEN <<>>
    ELSE (IF IsExplicitEdge(t, Head(allConnectors))
          THEN <<explicitEdgeOf(t, Head(allConnectors))>>
          ELSE <<>>) \o explicitEdges(t, Tail(allConnectors))

withExplicitEdges(t, allConnectors) ==
    t @@ [explicit |-> explicitEdges(t, allConnectors)]

\* existingPairs after the connector loop, the key `${startId}->${endId}` kept
\* as the pair of ids.
explicitPairs(edges) == {<<edges[i].fromId, edges[i].toId>> : i \in 1..Len(edges)}

\* ------------------------------------------------------------------------
\* frame_to_mermaid: inferred dependency edges (part_003 lines 2446-2502)
\* ------------------------------------------------------------------------

\* groupKeyFor: parentOf.get(id) || '__root__' (0 is the root group)
groupKeyFor(t, id) == parentGet(t, id)

\* groups.keys(): the group keys in the order of their first member
groupKeys(t) ==
    LET firsts == SelectSeq([i \in 1..Len(t.ids) |-> i], LAMBDA i :
                      \A j \in 1..(i - 1) : groupKeyFor(t, t.ids[j]) # groupKeyFor(t, t.ids[i]))
    IN [k \in 1..Len(firsts) |-> groupKeyFor(t, t.ids[firsts[k]])]

groupMembers(t, key) == SelectSeq(t.ids, LAMBDA id : groupKeyFor(t, id) = key)

\* the members that have a box, sorted by vertical centre (top + bottom) / 2
sortedGroup(t, boxed) ==
    StableSortByKey([i \in 1..Len(boxed) |->
                        [key |-> t.box[boxed[i]].top + t.box[boxed[i]].bottom,
                         id |-> boxed[i]]])

\* A variant of stacks that asks for the horizontal overlap only.
stacksAnyGap(boxA, boxB) ==
    Min2(boxA.right, boxB.right) - Max2(boxA.left, boxB.left) > 0

\* Do the neighbours a, b of the sorted order stack: horizontal overlap > 0 and
\* the distance of the vertical centres at most 0.75 x the smaller height
\* (top + bottom is four times the centre).
stacks(boxA, boxB) ==
    /\ Min2(boxA.right, boxB.right) - Max2(boxA.left, boxB.left) > 0
    /\ ~(Abs((boxB.top + boxB.bottom) - (boxA.top + boxA.bottom))
            > Min2(boxA.height, boxB.height) * 3)

\* topId, bottomId of the neighbours a, b
topBottom(t, a, b) ==
    IF t.box[a].top + t.box[a].bottom <= t.box[b].top + t.box[b].bottom
    THEN <<a, b>> ELSE <<b, a>>

\* The <<topId, bottomId>> pairs of the sorted neighbours that stack.
neighbourPairs(t, sorted) ==
    LET hits == SelectSeq([i \in 1..(Len(sorted) - 1) |-> i],
                          LAMBDA i : stacks(t.box[sorted[i].id], t.box[sorted[i + 1].id]))
    IN [k \in 1..Len(hits) |-> topBottom(t, sorted[hits[k]].id, sorted[hits[k] + 1].id)]

\* The pairs of one group; a group of fewer than two ids is skipped.
groupPairs(t, ids) ==
    IF Len(ids) < 2 THEN <<>>
    ELSE neighbourPairs(t, sortedGroup(t, SelectSeq(ids, LAMBDA id : idToBBox(t, id).ok)))

\* All stacking pairs, group by group in groups' order.
stackingPairsOf(t, keys) ==
    FlattenSeq([k \in 1..Len(keys) |-> groupPairs(t, groupMembers(t, keys[k]))])

\* A variant of pairExists that never finds the key.
pairExistsNever(existingPairs, pair) == FALSE

\* Is the pair's key in existingPairs?
pairExists(existingPairs, pair) == pair \in existingPairs

inferredEdgeOf(t, pair) ==
    [fromId |-> pair[1], toId |-> pair[2],
     fromAlias |-> idToAlias(t, pair[1]), toAlias |-> idToAlias(t, pair[2]),
     connectorId |-> 0, inferred |-> TRUE, label |-> <<>>]

\* The loop over the stacking pairs: a pair whose key is in existingPairs is
\* skipped, another one gets an edge and its key is added.
RECURSIVE inferredEdges(_, _, _)
inferredEdges(t, pairs, existingPairs) ==
    IF pairs = <<>> THEN <<>>
    ELSE IF \/ pairExists(existingPairs, Head(pairs))
            \/ idToAlias(t, Head(pairs)[1]) = 0
            \/ idToAlias(t, Head(pairs)[2]) = 0
         THEN inferredEdges(t, Tail(pairs), existingPairs)
         ELSE <<inferredEdgeOf(t, Head(pairs))>>
              \o inferredEdges(t, Tail(pairs), existingPairs \cup {Head(pairs)})

\* edges: the explicit ones, then the inferred ones
withInferredEdges(t) ==
    t @@ [edges |-> t.explicit \o inferredEdges(t, stackingPairsOf(t, groupKeys(t)),
                                                explicitPairs(t.explicit))]

\* ------------------------------------------------------------------------
\* frame_to_mermaid: regions (part_003 lines 2540-2552)
\* ------------------------------------------------------------------------

\* A variant of isRegion that knows the size test only.
isRegionBySize(t, id) ==
    /\ t.box[id].ok
    /\ regionThresholdOf(t.medianArea) # 0
    /\ boxArea(t.box[id]) >= regionThresholdOf(t.medianArea)

\* Is the node added to regionIds: its area is at least the region threshold,
\* or its colour is a region colour and its area at least half the median?
isRegion(t, id) ==
    /\ t.box[id].ok
    /\ \/ /\ regionThresholdOf(t.medianArea) # 0
          /\ boxArea(t.box[id]) >= regionThresholdOf(t.medianArea)
       \/ /\ t.color[id] # ""
          /\ t.color[id] \in t.regionColors
          /\ t.medianArea # 0
          /\ 2 * boxArea(t.box[id]) >= t.medianArea

\* regionIds, in insertion order
regionIdsOf(t) ==
    LET firsts == SelectSeq([i \in 1..Len(t.ids) |-> i], LAMBDA i :
                      isRegion(t, t.ids[i]) /\ \A j \in 1..(i - 1) : t.ids[j] # t.ids[i])
    IN [k \in 1..Len(firsts) |-> t.ids[firsts[k]]]

withRegions(t) == t @@ [regionIds |-> regionIdsOf(t)]

\* ------------------------------------------------------------------------
\* frame_to_mermaid: Mermaid text (part_003 lines 2504-2594)
\* ------------------------------------------------------------------------

\* One line of the diagram text. kind: "flowchart" (label: the direction),
\* "node" (a: alias), "subgraph" (a: alias of sg_n<a>, 0 for sg_root), "member"
\* (a: alias), "end", "edge" (a --> b). indent: the leading blanks.
Line(kind, indent, a, b, label) ==
    [kind |-> kind, indent |-> indent, a |-> a, b |-> b, label |-> label]

\* label.replace(/"/g, '\\"') of the edge lines: a backslash before each quote
RECURSIVE escapeQuotes(_)
escapeQuotes(s) ==
    IF s = <<>> THEN <<>>
    ELSE (IF Head(s) = "\"" THEN <<"\\", "\"">> ELSE <<Head(s)>>) \o escapeQuotes(Tail(s))

nodeLine(node) == Line("node", 2, node.alias, 0, node.label)

\* The line of a child that is no container: its alias
memberLines(t, childId, indent) ==
    IF idToAlias(t, childId) # 0
    THEN <<Line("member", indent, idToAlias(t, childId), 0, <<>>)>>
    ELSE <<>>

RECURSIVE emitSubgraph(_, _, _)
emitSubgraph(t, parentId, indent) ==
    IF childrenGet(t, parentId) = <<>> THEN <<>>
    ELSE <<Line("subgraph", indent, idToAlias(t, parentId), 0,
                t.nodes[idToAlias(t, parentId)].label)>>
         \o FlattenSeq([i \in 1..Len(childrenGet(t, parentId)) |->
                IF childrenHas(t, childrenGet(t, parentId)[i])
                THEN emitSubgraph(t, childrenGet(t, parentId)[i], indent + 2)
                ELSE memberLines(t, childrenGet(t, parentId)[i], indent + 2)])
         \o <<Line("end", indent, 0, 0, <<>>)>>

emitRegionSubgraph(t, id, indent) ==
    IF idToAlias(t, id) = 0 THEN <<>>
    ELSE << Line("subgraph", indent, idToAlias(t, id), 0, t.nodes[idToAlias(t, id)].label),
            Line("member", indent + 2, idToAlias(t, id), 0, <<>>),
            Line("end", indent, 0, 0, <<>>) >>

edgeLine(e) ==
    Line("edge", 2, e.fromAlias, e.toAlias,
         IF e.label # <<>> THEN escapeQuotes(e.label) ELSE <<>>)

\* rootLabel = frameTitle || `Frame ${frame_id}`
rootLabelOf(title, frame_id) ==
    orElse(title, <<"F", "r", "a", "m", "e", " ">> \o IdText(frame_id))

\* A variant of topContainers that keeps every container.
allContainers(t, keys) == keys

\* The containers that have no parent themselves, in childrenOf's key order
topContainers(t, keys) == SelectSeq(keys, LAMBDA p : parentGet(t, p) = 0)

\* The regions that are no containers, in regionIds' order
regionOnly(t) == SelectSeq(t.regionIds, LAMBDA id : ~childrenHas(t, id))

containerLines(t, tops) ==
    FlattenSeq([i \in 1..Len(tops) |-> emitSubgraph(t, tops[i], 4)])

regionLines(t, regions) ==
    FlattenSeq([i \in 1..Len(regions) |-> emitRegionSubgraph(t, regions[i], 4)])

mermaidLines(t, direction, rootLabel) ==
    <<Line("flowchart", 0, 0, 0, <<direction>>)>>
    \o [i \in 1..Len(t.nodes) |-> nodeLine(t.nodes[i])]
    \o <<Line("subgraph", 2, 0, 0, rootLabel)>>
    \o containerLines(t, topContainers(t, childrenKeys(t)))
    \o regionLines(t, regionOnly(t))
    \o <<Line("end", 2, 0, 0, <<>>)>>
    \o [i \in 1..Len(t.edges) |-> edgeLine(t.edges[i])]

\* Everything the handler derives from the fetched items and connectors.
analyse(frameItems, allConnectors) ==
    withRegions(withInferredEdges(withExplicitEdges(
        withContainment(withRegionStats(nodeTables(nodeItemsOf(frameItems)))),
        allConnectors)))

\* What the handler hands to formatApiResponse.
flowchartResponse(t, title, frame_id, direction) ==
    [kind |-> "flowchart",
     frameId |-> frame_id,
     direction |-> direction,
     mermaid |-> mermaidLines(t, direction, rootLabelOf(title, frame_id)),
     nodes |-> t.nodes,
     edges |-> t.edges]

\* ------------------------------------------------------------------------
\* The board behind the Miro REST API, and the state of one tool call
\* ------------------------------------------------------------------------

VARIABLES
    board,          \* [items, connectors]: what the API serves (fixed during a call)
    pageSize,       \* items the API puts on one page (the calls ask for at most 50)
    args,           \* [frame_id, limitPerFrame, maxConnectors, direction]; 0: not given
    pc,             \* the await the handler is at, or "returned" / "thrown"
    frameTitle,     \* frameTitle (<<>>: undefined)
    seedFrameIds,   \* seedFrameIds, in insertion order
    allFrames,      \* allFrames of the frame listing
    cursor,         \* cursor of the running pagination loop (0: undefined)
    items,          \* items of fetchFrameItems / fetchItemsForFrame
    visitedFrames,  \* visitedFrames
    queue,          \* queue of the breadth-first traversal
    curFrame,       \* frameId of the running fetchDirectChildren (0: none)
    childFrameIds,  \* childFrameIds of the running fetchDirectChildren
    connectors,     \* connectors of fetchConnectors
    requests,       \* the HTTP requests issued so far: [kind, frame, cursor, ok]
    response,       \* what execute returned (formatApiResponse's argument)
    tables,         \* the tables frame_to_mermaid derived before it returned
    error,          \* what execute threw (the Error's message)
    activeBoardId,  \* activeBoardId of the Miro server (<<>>: undefined or '')
    activeSetBy,    \* history: the call whose success assigned activeBoardId (0: startup)
    calls,          \* the tool calls the Miro server received, in order of arrival
    httpLog,        \* the requests the Miro server's calls issued, as a set of [call, board, kind]
    failedEndpoints, \* GraphClient.failedEndpoints of mcp-365: a set of patterns
    toolCalls,      \* the tool calls mcp-365 received, in order of arrival
    graphClient,    \* graphClient of mcp-365's index.js (0: null), an index of graphClients
    graphClients,   \* the GraphClient instances constructed: [authProvider, failedEndpoints]
    authProviders,  \* how many auth providers createAuthProvider returned
    handlerCalls,   \* the calls of the CallToolRequestSchema handler, in order of arrival
    wrapperIn,      \* the ADO wrapper's argv flags, process.env and file system
    wrapperPc,      \* where main of the ADO wrapper is, or "exited"
    pat,            \* pat of main (<<>>: null or not resolved yet)
    preflightResult, \* [answer, ok]: the status the projects call got (-1: not made,
                    \* 0: no answer) and what await preflight(orgUrl, pat) gave
    spawns,         \* the upstream servers spawned so far
    exitCode        \* the code of process.exit (-1: the process runs)

serverVars == <<activeBoardId, activeSetBy, calls, httpLog>>

clientVars == <<graphClient, graphClients, authProviders, handlerCalls>>

graphVars == <<failedEndpoints, toolCalls, clientVars>>

\* The state of the programs a frame_to_mermaid / frame_to_erd call leaves alone
wrapperVars == <<wrapperIn, wrapperPc, pat, preflightResult, spawns, exitCode>>

otherVars == <<serverVars, graphVars, wrapperVars>>

callVars == <<board, pageSize, args, pc, frameTitle, seedFrameIds, allFrames, cursor,
              items, visitedFrames, queue, curFrame, childFrameIds, connectors,
              requests, response, tables, error>>

vars == <<callVars, otherVars>>

inputVars == <<board, pageSize, args>>

\* No call has reached the Miro server.
ServerIdle ==
    /\ activeBoardId = <<>>
    /\ activeSetBy = 0
    /\ calls = <<>>
    /\ httpLog = {}

\* No call has reached mcp-365.
GraphIdle ==
    /\ failedEndpoints = {}
    /\ toolCalls = <<>>
    /\ graphClient = 0
    /\ graphClients = <<>>
    /\ authProviders = 0
    /\ handlerCalls = <<>>

\* The ADO wrapper has not been started.
WrapperIdle ==
    /\ wrapperIn = [help |-> FALSE]
    /\ wrapperPc = "off"
    /\ pat = <<>>
    /\ preflightResult = [answer |-> -1, ok |-> FALSE]
    /\ spawns = 0
    /\ exitCode = -1

OtherIdle == ServerIdle /\ GraphIdle /\ WrapperIdle

NoGeo == [posX |-> <<>>, posY |-> <<>>, geoX |-> <<>>, geoY |-> <<>>,
          width |-> <<>>, height |-> <<>>]

\* position {x, y} and geometry {width, height}
Geo(x, y, w, h) == [posX |-> <<x>>, posY |-> <<y>>, geoX |-> <<>>, geoY |-> <<>>,
                    width |-> <<w>>, height |-> <<h>>]

\* no position; geometry {x, y, width, height}
GeoOnly(x, y, w, h) == [posX |-> <<>>, posY |-> <<>>, geoX |-> <<x>>, geoY |-> <<y>>,
                        width |-> <<w>>, height |-> <<h>>]

\* no position; geometry {width, height}
SizeOnly(w, h) == [posX |-> <<>>, posY |-> <<>>, geoX |-> <<>>, geoY |-> <<>>,
                   width |-> <<w>>, height |-> <<h>>]

\* A board item as the API returns it. parent: the frame it belongs to
\* (parent.id, 0: none).
Item(id, type, parent, g, fillColor, title) ==
    [id |-> id, type |-> type, parent |-> parent,
     posX |-> g.posX, posY |-> g.posY, geoX |-> g.geoX, geoY |-> g.geoY,
     width |-> g.width, height |-> g.height,
     fillColor |-> fillColor, cardTheme |-> "", backgroundColor |-> "",
     title |-> title, content |-> <<>>]

\* A connector as the API returns it (startItem.id, endItem.id, style caps,
\* captions[0].content).
Connector(id, startItem, endItem, startCap, endCap, caption) ==
    [id |-> id, startItem |-> startItem, endItem |-> endItem,
     startStrokeCap |-> startCap, endStrokeCap |-> endCap, caption |-> caption]

\* The errors a miroClient.get can reject with: an HTTP answer outside 2xx
\* (error.response set) or no answer at all.
HttpErrors ==
    { [hasResponse |-> TRUE, status |-> 404, data |-> "notFound", message |-> "status404"],
      [hasResponse |-> TRUE, status |-> 500, data |-> "internalError", message |-> "status500"],
      [hasResponse |-> FALSE, status |-> 0, data |-> "", message |-> "timeout"] }

NoError == [thrown |-> FALSE, prefix |-> "", status |-> 0, body |-> ""]

NoResponse == [kind |-> "none"]

NoTables == [kind |-> "none"]

\* A variant of formatApiError that neither builds a message nor throws.
formatApiErrorSilent(e) == [thrown |-> FALSE, prefix |-> "", status |-> 0, body |-> ""]

\* formatApiError (part_003 lines 510-522): builds the message and throws it.
formatApiError(e) ==
    IF e.hasResponse
    THEN [thrown |-> TRUE, prefix |-> "Miro API Error", status |-> e.status, body |-> e.data]
    ELSE [thrown |-> TRUE, prefix |-> "Miro API Request Error", status |-> 0, body |-> e.message]

\* GET /v2/boards/{board}/items/{id}: the item, or none (the request fails)
ItemExists(id) == \E i \in 1..Len(board.items) : board.items[i].id = id

ApiItem(id) == board.items[CHOOSE i \in 1..Len(board.items) : board.items[i].id = id]

\* One page of a cursor-paginated listing: the data and cursor.after (0: none)
Page(list, after, size) ==
    [data |-> SubSeq(list, after + 1, Min2(after + size, Len(list))),
     after |-> IF after + size < Len(list) THEN after + size ELSE 0]

\* GET /v2/boards/{board}/items?type=frame
ApiFrames(after) ==
    Page(SelectSeq(board.items, LAMBDA it : it.type = "frame"), after, pageSize)

\* GET /v2/boards/{board}/items?parent_item_id={frameId}
ApiChildren(frameId, after) ==
    Page(SelectSeq(board.items, LAMBDA it : it.parent = frameId), after, pageSize)

\* GET /v2/boards/{board}/items
ApiItems(after) == Page(board.items, after, pageSize)

\* GET /v2/boards/{board}/connectors
ApiConnectors(after) == Page(board.connectors, after, pageSize)

Request(kind, frame, after, ok) == [kind |-> kind, frame |-> frame, cursor |-> after, ok |-> ok]

\* limitPerFrame && items.length >= limitPerFrame
LimitReached(its) == args.limitPerFrame # 0 /\ Len(its) >= args.limitPerFrame

\* maxConnectors && connectors.length >= maxConnectors
ConnectorCapReached(cs) == args.maxConnectors # 0 /\ Len(cs) >= args.maxConnectors

\* A variant of PushUntil that pushes the whole batch.
PushAll(acc, batch, cap) == acc \o batch

\* for (const x of batch) { if (cap reached) break; acc.push(x) }
RECURSIVE PushUntil(_, _, _)
PushUntil(acc, batch, cap) ==
    IF batch = <<>> \/ (cap # 0 /\ Len(acc) >= cap) THEN acc
    ELSE PushUntil(Append(acc, Head(batch)), Tail(batch), cap)

\* ------------------------------------------------------------------------
\* frame_to_mermaid: the handler (part_003 lines 2047-2606)
\* ------------------------------------------------------------------------

\* A variant of computeFrameBBox that reads a missing number as 0.
computeFrameBBoxLenient(frame) == computeItemBBoxLenient(frame)

\* computeFrameBBox (lines 2064-2085), in half units like computeItemBBox
computeFrameBBox(frame) ==
    LET x == IF IsNum(frame.posX) THEN frame.posX ELSE frame.geoX
        y == IF IsNum(frame.posY) THEN frame.posY ELSE frame.geoY
    IN IF ~IsNum(x) \/ ~IsNum(y) \/ ~IsNum(frame.width) \/ ~IsNum(frame.height)
       THEN NoBBox
       ELSE [ok |-> TRUE,
             left |-> 2 * x[1] - frame.width[1], right |-> 2 * x[1] + frame.width[1],
             top |-> 2 * y[1] - frame.height[1], bottom |-> 2 * y[1] + frame.height[1],
             width |-> frame.width[1], height |-> frame.height[1]]

\* Is the frame's box fully within the root frame's box (lines 2120-2126)?
frameWithin(bbox, rootBBox) ==
    /\ bbox.left >= rootBBox.left
    /\ bbox.right <= rootBBox.right
    /\ bbox.top >= rootBBox.top
    /\ bbox.bottom <= rootBBox.bottom

\* seedFrameIds after the loop over allFrames (lines 2116-2129): the target,
\* then every other listed frame whose box lies within the root's.
seedsOf(targetFrameId, frames, rootBBox) ==
    LET nested == SelectSeq([i \in 1..Len(frames) |-> i], LAMBDA i :
                      /\ computeFrameBBox(frames[i]).ok
                      /\ frameWithin(computeFrameBBox(frames[i]), rootBBox)
                      /\ frames[i].id # targetFrameId
                      /\ \A j \in 1..(i - 1) : frames[j].id # frames[i].id)
    IN <<targetFrameId>> \o [k \in 1..Len(nested) |-> frames[nested[k]].id]

\* A variant of bfsAdvance that does not look at visitedFrames.
bfsAdvanceRevisit(q, visited, its) ==
    IF q = <<>> \/ LimitReached(its)
    THEN [frame |-> 0, queue |-> q, visited |-> visited]
    ELSE [frame |-> Head(q), queue |-> Tail(q), visited |-> visited \cup {Head(q)}]

\* The while loop of the traversal up to its next await (lines 2166-2171):
\* frame is the frame whose children are requested next, 0 when the loop ended.
RECURSIVE bfsAdvance(_, _, _)
bfsAdvance(q, visited, its) ==
    IF q = <<>> \/ LimitReached(its)
    THEN [frame |-> 0, queue |-> q, visited |-> visited]
    ELSE IF Head(q) = 0 \/ Head(q) \in visited
         THEN bfsAdvance(Tail(q), visited, its)
         ELSE [frame |-> Head(q), queue |-> Tail(q), visited |-> visited \cup {Head(q)}]

\* Continue the traversal with queue q: request the next frame's children, or,
\* the traversal over, go on to fetchConnectors.
Traverse(q, visited, its) ==
    LET nxt == bfsAdvance(q, visited, its)
    IN /\ queue' = nxt.queue
       /\ visitedFrames' = nxt.visited
       /\ curFrame' = nxt.frame
       /\ childFrameIds' = <<>>
       /\ cursor' = 0
       /\ pc' = IF nxt.frame # 0 THEN "children" ELSE "connectors"

\* The title request of execute (lines 2210-2222); its failure is swallowed.
M_FetchTitle ==
    /\ pc = "title"
    /\ \/ /\ frameTitle' = <<>>
          /\ requests' = Append(requests, Request("item", args.frame_id, 0, FALSE))
       \/ /\ ItemExists(args.frame_id)
          /\ frameTitle' = plainSnippet(ApiItem(args.frame_id).title, LabelMax)
          /\ requests' = Append(requests, Request("item", args.frame_id, 0, TRUE))
    /\ pc' = "rootMeta"
    /\ UNCHANGED <<otherVars, inputVars, seedFrameIds, allFrames, cursor, items, visitedFrames,
                   queue, curFrame, childFrameIds, connectors, response, tables, error>>

\* The root frame request of fetchFrameItems (lines 2089-2096, 2131-2134).
M_FetchRootMeta ==
    /\ pc = "rootMeta"
    /\ seedFrameIds' = <<args.frame_id>>
    /\ \/ /\ ItemExists(args.frame_id)
          /\ requests' = Append(requests, Request("item", args.frame_id, 0, TRUE))
          /\ IF computeFrameBBox(ApiItem(args.frame_id)).ok
             THEN /\ pc' = "listFrames"
                  /\ cursor' = 0
                  /\ UNCHANGED <<queue, visitedFrames, curFrame, childFrameIds>>
             ELSE Traverse(<<args.frame_id>>, visitedFrames, items)
       \/ /\ requests' = Append(requests, Request("item", args.frame_id, 0, FALSE))
          /\ Traverse(<<args.frame_id>>, visitedFrames, items)
    /\ UNCHANGED <<otherVars, inputVars, frameTitle, allFrames, items, connectors, response, tables, error>>

\* One page of the frame listing (lines 2100-2129); a failure is caught and
\* leaves the target frame as the only seed (lines 2131-2134).
M_ListFramesPage ==
    /\ pc = "listFrames"
    /\ \/ LET page == ApiFrames(cursor)
              listed == allFrames \o SelectSeq(page.data, LAMBDA fr : fr.id # args.frame_id)
          IN /\ requests' = Append(requests, Request("frames", 0, cursor, TRUE))
             /\ allFrames' = listed
             /\ IF page.after # 0
                THEN /\ cursor' = page.after
                     /\ UNCHANGED <<pc, seedFrameIds, queue, visitedFrames, curFrame,
                                    childFrameIds>>
                ELSE /\ seedFrameIds' = seedsOf(args.frame_id, listed,
                                            computeFrameBBox(ApiItem(args.frame_id)))
                     /\ Traverse(seedFrameIds', visitedFrames, items)
       \/ /\ requests' = Append(requests, Request("frames", 0, cursor, FALSE))
          /\ UNCHANGED <<allFrames, seedFrameIds>>
          /\ Traverse(seedFrameIds, visitedFrames, items)
    /\ UNCHANGED <<otherVars, inputVars, frameTitle, items, connectors, response, tables, error>>

\* One page of fetchDirectChildren (lines 2140-2161) and, after its last page,
\* the queueing of the child frames found (lines 2171-2176).
M_FetchChildrenPage ==
    /\ pc = "children"
    /\ \/ LET page == ApiChildren(curFrame, cursor)
              its == PushUntil(items, page.data, args.limitPerFrame)
              pushed == SubSeq(its, Len(items) + 1, Len(its))
              frames == SelectSeq(pushed, LAMBDA it : it.type = "frame")
              found == childFrameIds \o [i \in 1..Len(frames) |-> frames[i].id]
          IN /\ requests' = Append(requests, Request("children", curFrame, cursor, TRUE))
             /\ items' = its
             /\ IF page.after # 0 /\ ~LimitReached(its)
                THEN /\ cursor' = page.after
                     /\ childFrameIds' = found
                     /\ UNCHANGED <<pc, queue, visitedFrames, curFrame>>
                ELSE Traverse(queue \o SelectSeq(found, LAMBDA f : f \notin visitedFrames),
                              visitedFrames, its)
          /\ UNCHANGED error
       \/ \E e \in HttpErrors :
             /\ requests' = Append(requests, Request("children", curFrame, cursor, FALSE))
             /\ error' = formatApiError(e)
             /\ pc' = "thrown"
             /\ UNCHANGED <<items, cursor, childFrameIds, queue, visitedFrames, curFrame>>
    /\ UNCHANGED <<otherVars, inputVars, frameTitle, seedFrameIds, allFrames, connectors, response, tables>>

\* One page of fetchConnectors (lines 2186-2203); after the last page the
\* diagram is built and returned (lines 2254-2603).
M_FetchConnectorsPage ==
    /\ pc = "connectors"
    /\ \/ \E e \in HttpErrors :
             /\ requests' = Append(requests, Request("connectors", 0, cursor, FALSE))
             /\ error' = formatApiError(e)
             /\ pc' = "thrown"
             /\ UNCHANGED <<connectors, cursor, response, tables>>
       \/ LET page == ApiConnectors(cursor)
              cs == PushUntil(connectors, page.data, args.maxConnectors)
          IN /\ requests' = Append(requests, Request("connectors", 0, cursor, TRUE))
             /\ connectors' = cs
             /\ IF page.after # 0 /\ ~ConnectorCapReached(cs)
                THEN /\ cursor' = page.after
                     /\ UNCHANGED <<pc, response, tables>>
                ELSE /\ tables' = analyse(items, cs)
                     /\ response' = flowchartResponse(tables', frameTitle, args.frame_id,
                                                      args.direction)
                     /\ pc' = "returned"
                     /\ UNCHANGED cursor
             /\ UNCHANGED error
    /\ UNCHANGED <<otherVars, inputVars, frameTitle, seedFrameIds, allFrames, items, visitedFrames,
                   queue, curFrame, childFrameIds>>

\* ------------------------------------------------------------------------
\* Bounds and inputs
\* ------------------------------------------------------------------------

MaxPageSize == 2

MaxLimit == 2

MaxConnectorCap == 1

MaxItems == 3

MaxConnectors == 2

\* All sequences without repetition of at most n elements of S
RECURSIVE SeqsUpTo(_, _)
SeqsUpTo(S, n) ==
    IF n = 0 THEN {<<>>}
    ELSE LET shorter == SeqsUpTo(S, n - 1)
         IN shorter \cup {Append(q, x) : q \in {r \in shorter : Len(r) = n - 1},
                                         x \in S} 

NoRepeat(q) == \A i, j \in 1..Len(q) : i # j => q[i] # q[j]

\* Boards of the traversal: the root frame 1, frames 2 and 3, and items 4-6.
\* Frame 2 lies within frame 1 or beside it and may be its child; frame 3 lies
\* within both and may be a child of frame 2; frame 1 may itself name frame 2
\* as its parent.
TraversalBoards ==
    { [items |->
         << Item(1, "frame", p1, g1, "", <<"R", "o", "o", "t">>),
            Item(2, "frame", p2, g2, "", <<>>),
            Item(3, "frame", p3, Geo(100, 100, 100, 100), "", <<>>),
            Item(4, "shape", p4, Geo(0, 0, 200, 100), "yellow", <<"A">>),
            Item(5, "sticky_note", p5, Geo(0, 0, 100, 50), "blue", <<>>),
            Item(6, "text", 1, Geo(0, 200, 100, 50), "", <<"t">>) >>,
       connectors |->
         << Connector(91, 4, 5, "", "", <<>>),
            Connector(92, 5, 6, "", "", <<>>) >>] :
      p1 \in {0, 2}, g1 \in {Geo(0, 0, 1000, 1000), NoGeo},
      p2 \in {0, 1}, g2 \in {Geo(0, 0, 400, 400), Geo(2000, 0, 400, 400)},
      p3 \in {0, 2}, p4 \in {1, 2}, p5 \in {1, 3} }

\* No frame call has started.
CallIdle ==
    /\ frameTitle = <<>>
    /\ seedFrameIds = <<>>
    /\ allFrames = <<>>
    /\ cursor = 0
    /\ items = <<>>
    /\ visitedFrames = {}
    /\ queue = <<>>
    /\ curFrame = 0
    /\ childFrameIds = <<>>
    /\ connectors = <<>>
    /\ requests = <<>>
    /\ response = NoResponse
    /\ tables = NoTables
    /\ error = NoError

InitCall == CallIdle /\ OtherIdle

\* A frame_to_mermaid call for frame 1 of a traversal board.
InitMermaid ==
    /\ board \in TraversalBoards
    /\ pageSize \in 1..MaxPageSize
    /\ args \in [frame_id : {1}, limitPerFrame : 0..MaxLimit,
                 maxConnectors : 0..MaxConnectorCap, direction : {"LR"}]
    /\ pc = "title"
    /\ InitCall

NextMermaid ==
    \/ M_FetchTitle
    \/ M_FetchRootMeta
    \/ M_ListFramesPage
    \/ M_FetchChildrenPage
    \/ M_FetchConnectorsPage

SpecMermaid == InitMermaid /\ [][NextMermaid]_vars

\* The same call when every request is answered in the end: an await of the
\* handler resumes once miroClient.get resolves or rejects.
SpecMermaidFair == SpecMermaid /\ WF_vars(NextMermaid)

\* The items a frame can hold, for the geometry of the diagram: a huge, a big
\* and a small box around the same centre, a box stacked just below the small
\* one, a box of the small one's size overlapping it, an item without position,
\* an item whose geometry carries x and y but that has no position, and an item
\* that is no diagram node.
Variants ==
    << [type |-> "shape", g |-> Geo(0, 0, 400, 300), color |-> "yellow", theme |-> "",
        title |-> <<"A", "<", "b", "r", ">", "\"", "B", "\"">>],
       [type |-> "shape", g |-> Geo(0, 0, 200, 100), color |-> "blue", theme |-> "",
        title |-> <<>>],
       [type |-> "sticky_note", g |-> Geo(0, 0, 100, 50), color |-> "yellow", theme |-> "",
        title |-> <<"p", "k">>],
       [type |-> "card", g |-> Geo(0, 30, 100, 50), color |-> "", theme |-> "green",
        title |-> <<>>],
       [type |-> "shape", g |-> Geo(10, 0, 100, 50), color |-> "red", theme |-> "",
        title |-> <<>>],
       [type |-> "shape", g |-> SizeOnly(150, 80), color |-> "blue", theme |-> "",
        title |-> <<>>],
       [type |-> "shape", g |-> GeoOnly(0, 0, 300, 200), color |-> "", theme |-> "",
        title |-> <<>>],
       [type |-> "text", g |-> Geo(0, 0, 500, 500), color |-> "", theme |-> "",
        title |-> <<>>] >>

\* The id of the frame the diagrams are about: the first id after the items' ids.
DiagramFrame == Len(Variants) + 1

\* The item of variant v with id id, inside the diagram frame.
VariantItem(id, v) ==
    [Item(id, Variants[v].type, DiagramFrame, Variants[v].g, Variants[v].color,
          Variants[v].title)
        EXCEPT !.cardTheme = Variants[v].theme]

\* The frame's items: distinct variants, item i having id i.
ItemLists ==
    {[i \in 1..Len(vs) |-> VariantItem(i, vs[i])] :
        vs \in {q \in SeqsUpTo(1..Len(Variants), MaxItems) : NoRepeat(q)}}

\* The connectors a board can hold: between the first items, both ways, with a
\* missing end, to something that is no item of the frame, with a caption.
ConnectorChoices ==
    << Connector(91, 1, 2, "", "", <<>>),
       Connector(92, 2, 1, "", "", <<"\"", "x", "\"">>),
       Connector(93, 1, 0, "", "", <<>>),
       Connector(94, 2, 7, "", "", <<>>),
       Connector(95, 2, 3, "", "", <<>>) >>

\* The connector lists: choices in the order above, at most MaxConnectors.
ConnectorLists ==
    {[i \in 1..Len(q) |-> ConnectorChoices[q[i]]] :
        q \in {r \in SeqsUpTo(1..Len(ConnectorChoices), MaxConnectors) :
                  \A i, j \in 1..Len(r) : i < j => r[i] < r[j]}}

\* The diagram as a function of what the fetches delivered: the frame's items,
\* the inspected connectors and the frame's title.
InitDiagram ==
    /\ items \in ItemLists
    /\ connectors \in ConnectorLists
    /\ frameTitle \in {<<>>, <<"T">>}
    /\ board = [items |-> items, connectors |-> connectors]
    /\ pageSize = MaxPageSize
    /\ args = [frame_id |-> DiagramFrame, limitPerFrame |-> 0, maxConnectors |-> 0,
               direction |-> "LR"]
    /\ pc = "build"
    /\ seedFrameIds = <<DiagramFrame>>
    /\ allFrames = <<>>
    /\ cursor = 0
    /\ visitedFrames = {DiagramFrame}
    /\ queue = <<>>
    /\ curFrame = 0
    /\ childFrameIds = <<>>
    /\ requests = <<>>
    /\ response = NoResponse
    /\ tables = NoTables
    /\ error = NoError
    /\ OtherIdle

\* Lines 2226-2603 applied to the fetched items and connectors.
M_Build ==
    /\ pc = "build"
    /\ tables' = analyse(items, connectors)
    /\ response' = flowchartResponse(tables', frameTitle, args.frame_id, args.direction)
    /\ pc' = "returned"
    /\ UNCHANGED <<otherVars, inputVars, frameTitle, seedFrameIds, allFrames, cursor, items,
                   visitedFrames, queue, curFrame, childFrameIds, connectors, requests,
                   error>>

NextDiagram == M_Build

SpecDiagram == InitDiagram /\ [][NextDiagram]_vars

\* ------------------------------------------------------------------------
\* The stacking of frame_to_mermaid as a function of the fetched items
\* ------------------------------------------------------------------------

\* The items of the stacking diagrams: boxes of height 80 with centres at y = 0,
\* 100 and 200, one at y = 60, one beside the first that touches it, a flat
\* box between them, a container around the upper ones, and an item without
\* position.
StackVariants ==
    << [g |-> Geo(0, 0, 100, 80), color |-> "blue"],
       [g |-> Geo(0, 100, 100, 80), color |-> "blue"],
       [g |-> Geo(0, 200, 100, 80), color |-> "blue"],
       [g |-> Geo(0, 60, 100, 80), color |-> "blue"],
       [g |-> Geo(100, 0, 100, 80), color |-> ""],
       [g |-> Geo(50, 30, 100, 40), color |-> "blue"],
       [g |-> Geo(0, 30, 300, 200), color |-> "yellow"],
       [g |-> SizeOnly(100, 80), color |-> "blue"] >>

\* The frame's items: distinct variants, item i having id i.
StackItemLists ==
    {[i \in 1..Len(vs) |->
        Item(i, "shape", DiagramFrame, StackVariants[vs[i]].g, StackVariants[vs[i]].color, <<>>)] :
        vs \in {q \in SeqsUpTo(1..Len(StackVariants), MaxItems) : NoRepeat(q)}}

\* The connectors of the stacking diagrams: between the first two items, one
\* way, the other way or both.
StackConnectorLists ==
    { <<>>,
      <<Connector(91, 1, 2, "", "", <<>>)>>,
      <<Connector(92, 2, 1, "", "", <<>>)>>,
      <<Connector(91, 1, 2, "", "", <<>>), Connector(92, 2, 1, "", "", <<>>)>> }

InitStack ==
    /\ items \in StackItemLists
    /\ connectors \in StackConnectorLists
    /\ frameTitle = <<>>
    /\ board = [items |-> items, connectors |-> connectors]
    /\ pageSize = MaxPageSize
    /\ args = [frame_id |-> DiagramFrame, limitPerFrame |-> 0, maxConnectors |-> 0,
               direction |-> "TB"]
    /\ pc = "build"
    /\ seedFrameIds = <<DiagramFrame>>
    /\ allFrames = <<>>
    /\ cursor = 0
    /\ visitedFrames = {DiagramFrame}
    /\ queue = <<>>
    /\ curFrame = 0
    /\ childFrameIds = <<>>
    /\ requests = <<>>
    /\ response = NoResponse
    /\ tables = NoTables
    /\ error = NoError
    /\ OtherIdle

SpecStack == InitStack /\ [][NextDiagram]_vars

\* ------------------------------------------------------------------------
\* frame_to_erd: entities and relationships (part_003 lines 2708-2733, 2797-2931)
\* ------------------------------------------------------------------------

UpperChars == <<"A", "B", "C", "D", "E", "F", "G", "H", "I", "J", "K", "L", "M",
                "N", "O", "P", "Q", "R", "S", "T", "U", "V", "W", "X", "Y", "Z">>

LowerChars == <<"a", "b", "c", "d", "e", "f", "g", "h", "i", "j", "k", "l", "m",
                "n", "o", "p", "q", "r", "s", "t", "u", "v", "w", "x", "y", "z">>

\* [A-Za-z0-9]
IsAlnum(ch) == ch \in Range(UpperChars) \cup Range(LowerChars) \cup Range(DigitChars)

\* base.replace(/[^A-Za-z0-9]+/g, '_'); inRun: the previous character was
\* replaced already
RECURSIVE replaceNonAlnum(_, _)
replaceNonAlnum(s, inRun) ==
    IF s = <<>> THEN <<>>
    ELSE IF IsAlnum(Head(s)) THEN <<Head(s)>> \o replaceNonAlnum(Tail(s), FALSE)
    ELSE (IF inRun THEN <<>> ELSE <<"_">>) \o replaceNonAlnum(Tail(s), TRUE)

\* base.replace(/^_+|_+$/g, '')
stripUnderscores(s) ==
    IF \A i \in 1..Len(s) : s[i] = "_" THEN <<>>
    ELSE SubSeq(s, CHOOSE i \in 1..Len(s) : s[i] # "_" /\ \A j \in 1..(i - 1) : s[j] = "_",
                   CHOOSE i \in 1..Len(s) : s[i] # "_" /\ \A j \in (i + 1)..Len(s) : s[j] = "_")

\* `Entity_${fallbackIndex}`
fallbackName(fallbackIndex) ==
    <<"E", "n", "t", "i", "t", "y", "_">> \o IdText(fallbackIndex)

\* if (/^[0-9]/.test(base)) base = `E_${base}`
prefixDigit(base) ==
    IF Head(base) \in Range(DigitChars) THEN <<"E", "_">> \o base ELSE base

makeEntityName(label, fallbackIndex) ==
    prefixDigit(orElse(stripUnderscores(replaceNonAlnum(
                           orElse(label, fallbackName(fallbackIndex)), FALSE)),
                       fallbackName(fallbackIndex)))

\* A variant of capToCardinality that knows no cap.
capToCardinalityOne(cap) == <<"|", "|">>

capToCardinality(cap) ==
    CASE cap = "" -> <<"|", "|">>
      [] cap \in {"erd_one", "erd_only_one"} -> <<"|", "|">>
      [] cap = "erd_zero_or_one" -> <<"o", "|">>
      [] cap \in {"erd_many", "erd_one_or_many"} -> <<"|", "{">>
      [] cap = "erd_zero_or_many" -> <<"o", "{">>
      [] OTHER -> <<"|", "|">>

\* idToItem.has(id)
erdHasItem(frameItems, id) == \E i \in 1..Len(frameItems) : frameItems[i].id = id

\* idToItem.get(id), for an id the map has
erdItem(frameItems, id) == frameItems[lastIndexOf(frameItems, id)]

\* Is the connector a relationship: both ends given, both items of the frame,
\* neither a sticky note (lines 2815-2826)?
isRelationship(frameItems, c) ==
    /\ c.startItem # 0
    /\ c.endItem # 0
    /\ erdHasItem(frameItems, c.startItem)
    /\ erdHasItem(frameItems, c.endItem)
    /\ erdItem(frameItems, c.startItem).type # "sticky_note"
    /\ erdItem(frameItems, c.endItem).type # "sticky_note"

relationshipConnectorsOf(frameItems, allConnectors) ==
    SelectSeq(allConnectors, LAMBDA c : isRelationship(frameItems, c))

\* A variant of endpointsOf that collects the start ends only.
startpointsOf(rels) == [i \in 1..Len(rels) |-> rels[i].startItem]

\* The ends of the relationship connectors, start before end
endpointsOf(rels) == FlattenSeq([i \in 1..Len(rels) |-> <<rels[i].startItem, rels[i].endItem>>])

\* entityIds: a Set, iterated in insertion order
entityIdsOf(ends) ==
    LET firsts == SelectSeq([i \in 1..Len(ends) |-> i],
                            LAMBDA i : \A j \in 1..(i - 1) : ends[j] # ends[i])
    IN [k \in 1..Len(firsts) |-> ends[firsts[k]]]

\* The ids of the loop in lines 2841-2857 that are not skipped
keptEntityIds(frameItems, entityIds) ==
    SelectSeq(entityIds, LAMBDA id :
        erdHasItem(frameItems, id) /\ erdItem(frameItems, id).type # "sticky_note")

\* /\bpk\b/i.test(line) for lit = "pk", /\bid\b/i.test(line) for lit = "id":
\* the word characters of \b are [A-Za-z0-9_].
testWord(line, lit, upper) ==
    \E i \in 1..Len(line) :
        /\ LitAt(line, i, lit, upper, TRUE)
        /\ i = 1 \/ ~(IsAlnum(line[i - 1]) \/ line[i - 1] = "_")
        /\ \/ i + Len(lit) > Len(line)
           \/ ~(IsAlnum(line[i + Len(lit)]) \/ line[i + Len(lit)] = "_")

\* plain.split(/\r?\n/)
RECURSIVE splitLines(_)
splitLines(plain) ==
    LET nl == {k \in 1..Len(plain) : plain[k] = "\n"}
    IN IF nl = {} THEN <<plain>>
       ELSE LET k == CHOOSE c \in nl : \A d \in nl : c <= d
                e == IF k > 1 /\ plain[k - 1] = "\r" THEN k - 2 ELSE k - 1
            IN <<SubSeq(plain, 1, e)>> \o splitLines(SubSeq(plain, k + 1, Len(plain)))

\* Lines 2767-2780: the split lines trimmed, the empty ones dropped; those
\* with the word pk or id, else the first line; at most three of them.
pkCandidatesOf(split) ==
    LET lines == SelectSeq([i \in 1..Len(split) |-> Trim(split[i])], LAMBDA l : l # <<>>)
        candidates == SelectSeq(lines, LAMBDA l :
                          \/ testWord(l, <<"p", "k">>, <<"P", "K">>)
                          \/ testWord(l, <<"i", "d">>, <<"I", "D">>))
        all == IF candidates = <<>> /\ lines # <<>> THEN <<lines[1]>> ELSE candidates
    IN SubSeq(all, 1, Min2(3, Len(all)))

extractPkCandidatesFromItem(item) ==
    pkCandidatesOf(splitLines(htmlToPlain(Trim(item.title \o <<"\n">> \o item.content))))

\* The entity of the item, the counter-th one
entityOf(it, counter) ==
    [id |-> it.id, entityName |-> makeEntityName(labelOf(it), counter), label |-> labelOf(it),
     pkCandidates |-> extractPkCandidatesFromItem(it)]

entitiesOf(frameItems, kept) ==
    [k \in 1..Len(kept) |-> entityOf(erdItem(frameItems, kept[k]), k)]

\* idToEntityName.get(id); <<>>: undefined
idToEntityName(entities, id) ==
    IF \E k \in 1..Len(entities) : entities[k].id = id
    THEN entities[CHOOSE k \in 1..Len(entities) : entities[k].id = id].entityName
    ELSE <<>>

ErdCaptionMax == 60

relationshipOf(entities, c) ==
    [fromId |-> c.startItem, toId |-> c.endItem,
     fromEntity |-> idToEntityName(entities, c.startItem),
     toEntity |-> idToEntityName(entities, c.endItem),
     leftCardinality |-> capToCardinality(c.startStrokeCap),
     rightCardinality |-> capToCardinality(c.endStrokeCap),
     label |-> captionLabel(c, ErdCaptionMax),
     connectorId |-> c.id]

\* Lines 2870-2901: a connector without both entity names is skipped
relationshipsOf(entities, rels) ==
    LET named == SelectSeq(rels, LAMBDA c :
                     /\ idToEntityName(entities, c.startItem) # <<>>
                     /\ idToEntityName(entities, c.endItem) # <<>>)
    IN [i \in 1..Len(named) |-> relationshipOf(entities, named[i])]

\* One line of the ER diagram text: its kind and, for the lines that depend on
\* the input, its characters.
ErdLine(kind, text) == [kind |-> kind, text |-> text]

\* r.label.replace(/"/g, '\"'): the replacement '\"' is the one character "
RECURSIVE replaceQuotes(_)
replaceQuotes(s) ==
    IF s = <<>> THEN <<>>
    ELSE (IF Head(s) = "\"" THEN <<"\"">> ELSE <<Head(s)>>) \o replaceQuotes(Tail(s))

\* `  %% ${e.entityName} = ${e.label}`
entityLine(e) ==
    ErdLine("entity", <<" ", " ", "%", "%", " ">> \o e.entityName \o <<" ", "=", " ">> \o e.label)

\* `  ${r.fromEntity} ${left}--${right} ${r.toEntity}${suffix}`
relationshipLine(r) ==
    ErdLine("relationship",
            <<" ", " ">> \o r.fromEntity \o <<" ">> \o r.leftCardinality \o <<"-", "-">>
            \o r.rightCardinality \o <<" ">> \o r.toEntity
            \o (IF r.label # <<>> THEN <<" ", ":", " ">> \o replaceQuotes(r.label) ELSE <<>>))

\* The entities whose name no earlier entity has (seenNames)
firstOfName(entities) ==
    SelectSeq([k \in 1..Len(entities) |-> k], LAMBDA k :
        \A j \in 1..(k - 1) : entities[j].entityName # entities[k].entityName)

erdLines(entities, firsts, relationships) ==
    <<ErdLine("erDiagram", <<>>), ErdLine("entitiesComment", <<>>)>>
    \o [k \in 1..Len(firsts) |-> entityLine(entities[firsts[k]])]
    \o <<ErdLine("blank", <<>>), ErdLine("relationshipsComment", <<>>)>>
    \o [i \in 1..Len(relationships) |-> relationshipLine(relationships[i])]

\* What the handler hands to formatApiResponse, from entities and relationships
erdResponse(entities, relationships, title, frame_id) ==
    [kind |-> "erd",
     frameId |-> frame_id,
     frameTitle |-> title,
     erd |-> erdLines(entities, firstOfName(entities), relationships),
     entities |-> entities,
     relationships |-> relationships]

\* Lines 2870-2931 for the entities found
erdOfEntities(entities, rels, title, frame_id) ==
    erdResponse(entities, relationshipsOf(entities, rels), title, frame_id)

\* Lines 2828-2931 for the relationship connectors found
erdOfConnectors(frameItems, rels, title, frame_id) ==
    erdOfEntities(
        entitiesOf(frameItems, keptEntityIds(frameItems, entityIdsOf(endpointsOf(rels)))),
        rels, title, frame_id)

buildErd(frameItems, allConnectors, title, frame_id) ==
    erdOfConnectors(frameItems, relationshipConnectorsOf(frameItems, allConnectors),
                    title, frame_id)

\* ------------------------------------------------------------------------
\* frame_to_erd: the handler (part_003 lines 2623-2935)
\* ------------------------------------------------------------------------

\* Is the centre of the item's box within the frame's box (lines 2665-2673)?
\* left + right is four times the centre's x.
centreWithin(bbox, frameBBox) ==
    /\ bbox.left + bbox.right >= 2 * frameBBox.left
    /\ bbox.left + bbox.right <= 2 * frameBBox.right
    /\ bbox.top + bbox.bottom >= 2 * frameBBox.top
    /\ bbox.top + bbox.bottom <= 2 * frameBBox.bottom

\* The items of a batch that fetchItemsForFrame keeps, the cap aside
keptOfBatch(batch, frameBBox) ==
    SelectSeq(batch, LAMBDA it :
        computeItemBBox(it).ok /\ centreWithin(computeItemBBox(it), frameBBox))

\* The title request of execute (lines 2784-2795); its failure is swallowed.
E_FetchTitle ==
    /\ pc = "erdTitle"
    /\ \/ /\ ItemExists(args.frame_id)
          /\ frameTitle' = plainSnippet(ApiItem(args.frame_id).title, LabelMax)
          /\ requests' = Append(requests, Request("item", args.frame_id, 0, TRUE))
       \/ /\ frameTitle' = <<>>
          /\ requests' = Append(requests, Request("item", args.frame_id, 0, FALSE))
    /\ pc' = "erdMeta"
    /\ UNCHANGED <<otherVars, inputVars, seedFrameIds, allFrames, cursor, items, visitedFrames,
                   queue, curFrame, childFrameIds, connectors, response, tables, error>>

\* The frame request of fetchItemsForFrame (lines 2633-2647): without a frame
\* box, because the request failed or the frame has no numeric geometry, the
\* function returns its empty list.
E_FetchFrameMeta ==
    /\ pc = "erdMeta"
    /\ \/ /\ ItemExists(args.frame_id)
          /\ requests' = Append(requests, Request("item", args.frame_id, 0, TRUE))
          /\ pc' = IF computeItemBBox(ApiItem(args.frame_id)).ok
                   THEN "erdItems" ELSE "erdConnectors"
       \/ /\ requests' = Append(requests, Request("item", args.frame_id, 0, FALSE))
          /\ pc' = "erdConnectors"
    /\ cursor' = 0
    /\ UNCHANGED <<otherVars, inputVars, frameTitle, seedFrameIds, allFrames, items, visitedFrames,
                   queue, curFrame, childFrameIds, connectors, response, tables, error>>

\* One page of the board's items (lines 2649-2679).
E_FetchItemsPage ==
    /\ pc = "erdItems"
    /\ \/ LET page == ApiItems(cursor)
              its == PushUntil(items,
                               keptOfBatch(page.data, computeItemBBox(ApiItem(args.frame_id))),
                               args.limitPerFrame)
          IN /\ requests' = Append(requests, Request("items", 0, cursor, TRUE))
             /\ items' = its
             /\ IF page.after # 0 /\ ~LimitReached(its)
                THEN cursor' = page.after /\ UNCHANGED pc
                ELSE cursor' = 0 /\ pc' = "erdConnectors"
          /\ UNCHANGED error
       \/ \E e \in HttpErrors :
             /\ requests' = Append(requests, Request("items", 0, cursor, FALSE))
             /\ error' = formatApiError(e)
             /\ pc' = "thrown"
             /\ UNCHANGED <<items, cursor>>
    /\ UNCHANGED <<otherVars, inputVars, frameTitle, seedFrameIds, allFrames, visitedFrames, queue,
                   curFrame, childFrameIds, connectors, response, tables>>

\* One page of fetchConnectors (lines 2688-2703); after the last page the
\* diagram is built and returned (lines 2811-2931).
E_FetchConnectorsPage ==
    /\ pc = "erdConnectors"
    /\ \/ LET page == ApiConnectors(cursor)
              cs == PushUntil(connectors, page.data, args.maxConnectors)
          IN /\ requests' = Append(requests, Request("connectors", 0, cursor, TRUE))
             /\ connectors' = cs
             /\ IF page.after # 0 /\ ~ConnectorCapReached(cs)
                THEN /\ cursor' = page.after
                     /\ UNCHANGED <<pc, response, tables>>
                ELSE /\ response' = buildErd(items, cs, frameTitle, args.frame_id)
                     /\ UNCHANGED tables
                     /\ pc' = "returned"
                     /\ UNCHANGED cursor
          /\ UNCHANGED error
       \/ \E e \in HttpErrors :
             /\ requests' = Append(requests, Request("connectors", 0, cursor, FALSE))
             /\ error' = formatApiError(e)
             /\ pc' = "thrown"
             /\ UNCHANGED <<connectors, cursor, response, tables>>
    /\ UNCHANGED <<otherVars, inputVars, frameTitle, seedFrameIds, allFrames, items, visitedFrames,
                   queue, curFrame, childFrameIds>>

\* The stroke caps of a connector end: absent, the six ERD caps, another cap
ErdCaps == {"", "erd_one", "erd_only_one", "erd_zero_or_one", "erd_many",
            "erd_one_or_many", "erd_zero_or_many", "arrow"}

\* The second connector of an ER board, if any: back from B to A, to a sticky
\* note, to an item outside the frame, with a quoted caption, without an end,
\* from an item of the frame that has no geometry.
ErdSecondConnectors ==
    { <<>>,
      <<Connector(92, 2, 1, "erd_zero_or_many", "", <<>>)>>,
      <<Connector(93, 1, 3, "", "", <<>>)>>,
      <<Connector(94, 5, 4, "", "erd_one", <<>>)>>,
      <<Connector(95, 5, 1, "", "", <<"\"", "h", "a", "s", "\"">>)>>,
      <<Connector(96, 1, 0, "", "", <<>>)>>,
      <<Connector(97, 6, 1, "", "", <<>>)>> }

\* Boards with an ER diagram in frame 9: entities A (1) and B (2), a sticky
\* note (3), a shape outside the frame (4), a card whose title starts with a
\* digit (5) and a shape of the frame without geometry (6); a connector from A
\* to B with any caps, and possibly a second connector.
ErdBoards ==
    { [items |->
         << Item(1, "shape", DiagramFrame, Geo(-100, 0, 100, 50), "",
                 <<"E", "n", "t", "i", "t", "y", "A">>),
            Item(2, "shape", DiagramFrame, Geo(100, 0, 100, 50), "",
                 <<"E", "n", "t", "i", "t", "y", "B">>),
            Item(DiagramFrame, "frame", 0, g, "", <<"D", "B">>),
            Item(3, "sticky_note", DiagramFrame, Geo(0, 100, 50, 50), "", <<"n">>),
            Item(4, "shape", 0, Geo(5000, 0, 100, 50), "", <<"O", "u", "t">>),
            Item(5, "card", DiagramFrame, Geo(0, -100, 100, 50), "",
                 <<"1", " ", "x", "-", "y">>),
            Item(6, "shape", DiagramFrame, NoGeo, "", <<"Z">>) >>,
       connectors |-> <<Connector(91, 1, 2, startCap, endCap, <<>>)>> \o second] :
      g \in {Geo(0, 0, 1000, 1000), NoGeo},
      startCap \in ErdCaps, endCap \in ErdCaps, second \in ErdSecondConnectors }

\* A frame_to_erd call for the frame of an ER board.
InitErd ==
    /\ board \in ErdBoards
    /\ pageSize = MaxPageSize
    /\ args \in [frame_id : {DiagramFrame}, limitPerFrame : {0, MaxLimit},
                 maxConnectors : {0, MaxConnectorCap}, direction : {""}]
    /\ pc = "erdTitle"
    /\ InitCall

NextErd ==
    \/ E_FetchTitle
    \/ E_FetchFrameMeta
    \/ E_FetchItemsPage
    \/ E_FetchConnectorsPage

SpecErd == InitErd /\ [][NextErd]_vars

\* ------------------------------------------------------------------------
\* The entity names of frame_to_erd as a function of the fetched items
\* ------------------------------------------------------------------------

\* The titles of the items of the naming boards
NameLabels ==
    { <<"A", " ", "B">>, <<"A", "_", "B">>, <<"A", "B">>, <<"-">>,
      <<"E", "n", "t", "i", "t", "y", "_", "2">>, <<"2">>, <<"E", "_", "2">> }

\* The items of a naming board: two to MaxItems shapes of the frame, item i
\* having id i, with any of the titles.
NameItemLists ==
    UNION {{[i \in 1..n |->
                Item(i, "shape", DiagramFrame, Geo(100 * i, 0, 50, 50), "", labels[i])] :
            labels \in [1..n -> NameLabels]} : n \in 2..MaxItems}

\* The connectors of a naming board: from each item to the next.
NameConnectors(n) == [i \in 1..(n - 1) |-> Connector(90 + i, i, i + 1, "", "", <<>>)]

InitNames ==
    /\ items \in NameItemLists
    /\ connectors = NameConnectors(Len(items))
    /\ frameTitle = <<>>
    /\ board = [items |-> items, connectors |-> connectors]
    /\ pageSize = MaxPageSize
    /\ args = [frame_id |-> DiagramFrame, limitPerFrame |-> 0, maxConnectors |-> 0,
               direction |-> ""]
    /\ pc = "erdBuild"
    /\ seedFrameIds = <<>>
    /\ allFrames = <<>>
    /\ cursor = 0
    /\ visitedFrames = {}
    /\ queue = <<>>
    /\ curFrame = 0
    /\ childFrameIds = <<>>
    /\ requests = <<>>
    /\ response = NoResponse
    /\ tables = NoTables
    /\ error = NoError
    /\ OtherIdle

\* Lines 2794-2931 applied to the fetched items and connectors.
E_Build ==
    /\ pc = "erdBuild"
    /\ response' = buildErd(items, connectors, frameTitle, args.frame_id)
    /\ pc' = "returned"
    /\ UNCHANGED <<otherVars, inputVars, frameTitle, seedFrameIds, allFrames, cursor, items,
                   visitedFrames, queue, curFrame, childFrameIds, connectors, requests,
                   tables, error>>

NextNames == E_Build

SpecNames == InitNames /\ [][NextNames]_vars

\* ------------------------------------------------------------------------
\* extractPkCandidatesFromItem on its own
\* ------------------------------------------------------------------------

MaxPieces == 2

\* The pieces the texts of an item are put together from.
PkPieces ==
    { <<"i", "d">>, <<"P", "K">>, <<"a">>, <<"_">>, <<" ">>, <<"\n">>,
      <<"<", "b", "r", ">">>, <<"<", "/", "p", ">">> }

RECURSIVE TextsUpTo(_)
TextsUpTo(n) ==
    IF n = 0 THEN {<<>>}
    ELSE TextsUpTo(n - 1) \cup {t \o p : t \in TextsUpTo(n - 1), p \in PkPieces}

\* One shape with a title of at most one piece and a content of at most
\* MaxPieces pieces.
InitPk ==
    /\ \E title \in TextsUpTo(1), content \in TextsUpTo(MaxPieces) :
          items = << [Item(1, "shape", 0, NoGeo, "", title) EXCEPT !.content = content] >>
    /\ connectors = <<>>
    /\ board = [items |-> items, connectors |-> connectors]
    /\ pageSize = MaxPageSize
    /\ args = [frame_id |-> DiagramFrame, limitPerFrame |-> 0, maxConnectors |-> 0,
               direction |-> ""]
    /\ pc = "pk"
    /\ frameTitle = <<>>
    /\ seedFrameIds = <<>>
    /\ allFrames = <<>>
    /\ cursor = 0
    /\ visitedFrames = {}
    /\ queue = <<>>
    /\ curFrame = 0
    /\ childFrameIds = <<>>
    /\ requests = <<>>
    /\ response = NoResponse
    /\ tables = NoTables
    /\ error = NoError
    /\ OtherIdle

\* Line 2852 applied to the item.
E_ExtractPk ==
    /\ pc = "pk"
    /\ response' = [pkCandidates |-> extractPkCandidatesFromItem(items[1])]
    /\ pc' = "pkDone"
    /\ UNCHANGED <<otherVars, inputVars, frameTitle, seedFrameIds, allFrames, cursor, items,
                   visitedFrames, queue, curFrame, childFrameIds, connectors, requests,
                   tables, error>>

NextPk == E_ExtractPk

SpecPk == InitPk /\ [][NextPk]_vars

\* ------------------------------------------------------------------------
\* The Miro server's active board across concurrent tool calls
\* ------------------------------------------------------------------------

MaxCalls == 2

B01 == <<"b", "0", "1">>
B02 == <<"b", "0", "2">>
PaddedB01 == <<" ", "b", "0", "1">>
Blank3 == <<" ", " ", " ">>

\* The arguments of a call: board_id and frame_id, each <<>> when not given
\* and <<text>> when given.
CallArgs(board_id, frame_id) == [board_id |-> board_id, frame_id |-> frame_id]

\* The calls a client sends
CallKinds ==
    {[tool |-> "set_active_board", args |-> CallArgs(b, <<>>)] :
        b \in {<<B02>>, <<PaddedB01>>, <<Blank3>>, << <<"b", "1">> >>}}
    \cup {[tool |-> "get_specific_board", args |-> CallArgs(b, <<>>)] :
        b \in {<<>>, <<B02>>}}
    \cup {[tool |-> "frame_to_mermaid", args |-> a] :
        a \in {CallArgs(<<>>, << <<"f">> >>), CallArgs(<<>>, <<>>),
               CallArgs(<<Blank3>>, << <<"f">> >>)}}
    \cup {[tool |-> "frame_to_erd", args |-> a] :
        a \in {CallArgs(<<PaddedB01>>, << <<"f">> >>), CallArgs(<<B02>>, << <<>> >>)}}

\* The parameters schema of the tool accepts the arguments: board_id
\* z.string().min(3) for set_active_board and optional elsewhere, frame_id
\* z.string().min(1) for the frame tools.
zodAccepts(tool, a) ==
    CASE tool = "set_active_board" -> a.board_id # <<>> /\ Len(a.board_id[1]) >= 3
      [] tool \in {"frame_to_mermaid", "frame_to_erd"} ->
            a.frame_id # <<>> /\ Len(a.frame_id[1]) >= 1
      [] OTHER -> TRUE

\* A variant of resolveBoardId that returns activeBoardId whatever it is.
resolveBoardIdUnchecked(a, active) ==
    IF a.board_id # <<>> /\ Trim(a.board_id[1]) # <<>>
    THEN [thrown |-> FALSE, boardId |-> Trim(a.board_id[1])]
    ELSE [thrown |-> FALSE, boardId |-> active]

\* A variant of resolveBoardId that prefers the active board to the argument.
resolveBoardIdActiveFirst(a, active) ==
    IF active # <<>> THEN [thrown |-> FALSE, boardId |-> active]
    ELSE IF a.board_id # <<>> /\ Trim(a.board_id[1]) # <<>>
    THEN [thrown |-> FALSE, boardId |-> Trim(a.board_id[1])]
    ELSE [thrown |-> TRUE, boardId |-> <<>>]

\* resolveBoardId: the trimmed board_id when that is not empty, else the
\* active board, else it throws.
resolveBoardId(a, active) ==
    IF a.board_id # <<>> /\ Trim(a.board_id[1]) # <<>>
    THEN [thrown |-> FALSE, boardId |-> Trim(a.board_id[1])]
    ELSE IF active = <<>>
    THEN [thrown |-> TRUE, boardId |-> <<>>]
    ELSE [thrown |-> FALSE, boardId |-> active]

\* The requests of a call in the order of its awaits (each listing taken as
\* one page), all on /v2/boards/{boardId}
requestKinds(tool) ==
    CASE tool = "frame_to_mermaid" -> <<"frameTitle", "rootMeta", "frames", "children", "connectors">>
      [] tool = "frame_to_erd" -> <<"frameTitle", "frameMeta", "items", "connectors">>
      [] OTHER -> <<"board">>

\* The requests whose failure the handler catches and ignores
ignoresFailure(kind) == kind \in {"frameTitle", "rootMeta", "frames", "frameMeta"}

\* The call as the server keeps it: boardId is the const of execute, step the
\* request it awaits; activeAtEntry and setter are history.
NewCall(kind, boardId, state, step) ==
    [tool |-> kind.tool, args |-> kind.args, boardId |-> boardId, state |-> state,
     step |-> step, activeAtEntry |-> activeBoardId, setter |-> activeSetBy]

\* A variant of requestBoard that resolves the board again for each request.
requestBoardResolvedAgain(call, active) ==
    IF call.args.board_id # <<>> /\ Trim(call.args.board_id[1]) # <<>>
    THEN Trim(call.args.board_id[1])
    ELSE active

\* The board of a request a frame tool issues after its first await:
\* `/v2/boards/${boardId}/...` reads the const boardId of execute, whatever
\* activeBoardId is by then.
requestBoard(call, active) == call.boardId

\* active is history: activeBoardId when the request was issued.
LogEntry(c, boardId, kind) ==
    [call |-> c, board |-> boardId, kind |-> kind, active |-> activeBoardId]

\* An answer of the Miro API: 2xx, or one of the errors miroClient.get rejects with
HttpOk == [hasResponse |-> TRUE, status |-> 200, data |-> "ok", message |-> ""]

\* A call arrives; execute runs up to its first await.
S_Call(kind) ==
    /\ Len(calls) < MaxCalls
    /\ LET c == Len(calls) + 1
           r == resolveBoardId(kind.args, activeBoardId)
       IN IF ~zodAccepts(kind.tool, kind.args)
          THEN /\ calls' = Append(calls, NewCall(kind, <<>>, "invalid", 0))
               /\ UNCHANGED httpLog
          ELSE IF kind.tool = "set_active_board"
          THEN /\ calls' = Append(calls, NewCall(kind, Trim(kind.args.board_id[1]), "waiting", 1))
               /\ httpLog' = httpLog \cup {LogEntry(c, Trim(kind.args.board_id[1]), "board")}
          ELSE IF r.thrown
          THEN /\ calls' = Append(calls, NewCall(kind, <<>>, "thrown", 0))
               /\ UNCHANGED httpLog
          ELSE /\ calls' = Append(calls, NewCall(kind, r.boardId, "waiting", 1))
               /\ httpLog' = httpLog \cup {LogEntry(c, r.boardId, requestKinds(kind.tool)[1])}
    /\ UNCHANGED <<activeBoardId, activeSetBy, callVars, graphVars, wrapperVars>>

\* The request call c awaits is answered; execute runs up to its next await
\* or its end.
S_Answer(c, e) ==
    /\ calls[c].state = "waiting"
    /\ LET call == calls[c]
           kinds == requestKinds(call.tool)
           ok == e = HttpOk
       IN IF call.tool = "set_active_board"
          THEN IF ok
               THEN /\ activeBoardId' = call.boardId
                    /\ activeSetBy' = c
                    /\ calls' = [calls EXCEPT ![c].state = "returned"]
                    /\ UNCHANGED httpLog
               ELSE /\ calls' = [calls EXCEPT ![c].state =
                                    IF formatApiError(e).thrown THEN "thrown" ELSE "returned"]
                    /\ UNCHANGED <<activeBoardId, activeSetBy, httpLog>>
          ELSE /\ UNCHANGED <<activeBoardId, activeSetBy>>
               /\ IF ~ok /\ ~ignoresFailure(kinds[call.step])
                  THEN /\ calls' = [calls EXCEPT ![c].state =
                                       IF formatApiError(e).thrown THEN "thrown" ELSE "returned"]
                       /\ UNCHANGED httpLog
                  ELSE IF call.step = Len(kinds)
                  THEN /\ calls' = [calls EXCEPT ![c].state = "returned"]
                       /\ UNCHANGED httpLog
                  ELSE /\ calls' = [calls EXCEPT ![c].step = call.step + 1]
                       /\ httpLog' = httpLog \cup {LogEntry(c, requestBoard(call, activeBoardId),
                                                           kinds[call.step + 1])}
    /\ UNCHANGED <<callVars, graphVars, wrapperVars>>

\* The server starts with MIRO_BOARD_ID as its active board, if set.
InitBoard ==
    /\ activeBoardId \in {<<>>, B01}
    /\ activeSetBy = 0
    /\ calls = <<>>
    /\ httpLog = {}
    /\ board = [items |-> <<>>, connectors |-> <<>>]
    /\ pageSize = MaxPageSize
    /\ args = [frame_id |-> 0, limitPerFrame |-> 0, maxConnectors |-> 0, direction |-> ""]
    /\ pc = "idle"
    /\ CallIdle
    /\ GraphIdle
    /\ WrapperIdle

NextBoard ==
    \/ \E kind \in CallKinds : S_Call(kind)
    \/ \E c \in 1..Len(calls), e \in {HttpOk} \cup HttpErrors : S_Answer(c, e)

SpecBoard == InitBoard /\ [][NextBoard]_vars

\* ------------------------------------------------------------------------
\* mcp-365: GraphClient.request and the tool call around it
\* ------------------------------------------------------------------------

MaxToolCalls == 2

\* ENDPOINT_PERMISSIONS in the order of its keys
ENDPOINT_PERMISSIONS ==
    << [pattern |-> "/me/messages", chars |-> <<"/", "m", "e", "/", "m", "e", "s", "s", "a", "g", "e", "s">>,
        permissions |-> <<"Mail.Read", "Mail.ReadWrite">>],
       [pattern |-> "/me/mailFolders", chars |-> <<"/", "m", "e", "/", "m", "a", "i", "l", "F", "o", "l", "d", "e", "r", "s">>,
        permissions |-> <<"Mail.Read", "Mail.ReadWrite">>],
       [pattern |-> "/me/calendar", chars |-> <<"/", "m", "e", "/", "c", "a", "l", "e", "n", "d", "a", "r">>,
        permissions |-> <<"Calendars.Read", "Calendars.ReadWrite">>],
       [pattern |-> "/me/events", chars |-> <<"/", "m", "e", "/", "e", "v", "e", "n", "t", "s">>,
        permissions |-> <<"Calendars.Read", "Calendars.ReadWrite">>],
       [pattern |-> "/me/drive", chars |-> <<"/", "m", "e", "/", "d", "r", "i", "v", "e">>,
        permissions |-> <<"Files.Read", "Files.ReadWrite", "Files.Read.All", "Files.ReadWrite.All">>],
       [pattern |-> "/drives", chars |-> <<"/", "d", "r", "i", "v", "e", "s">>,
        permissions |-> <<"Files.Read", "Files.ReadWrite", "Files.Read.All", "Files.ReadWrite.All">>],
       [pattern |-> "/sites", chars |-> <<"/", "s", "i", "t", "e", "s">>,
        permissions |-> <<"Sites.Read.All", "Sites.ReadWrite.All">>],
       [pattern |-> "/teams", chars |-> <<"/", "t", "e", "a", "m", "s">>,
        permissions |-> <<"Team.ReadBasic.All", "TeamSettings.Read.All">>],
       [pattern |-> "/search/query", chars |-> <<"/", "s", "e", "a", "r", "c", "h", "/", "q", "u", "e", "r", "y">>,
        permissions |-> <<"Files.Read.All", "Mail.Read", "Calendars.Read">>] >>

\* String.prototype.includes
Includes(s, sub) == \E i \in 1..Len(s) : LitAt(s, i, sub, sub, FALSE)

\* getRequiredPermission: the first entry whose pattern the endpoint includes,
\* as its position in ENDPOINT_PERMISSIONS (0: null)
getRequiredPermission(endpoint) ==
    LET hits == {k \in 1..Len(ENDPOINT_PERMISSIONS) :
                    Includes(endpoint, ENDPOINT_PERMISSIONS[k].chars)}
    IN IF hits = {} THEN 0 ELSE CHOOSE k \in hits : \A j \in hits : k <= j

\* A variant of isEndpointBlocked that blocks nothing.
isEndpointBlockedNever(failed, endpoint) == FALSE

\* isEndpointBlocked with this.failedEndpoints = failed
isEndpointBlocked(failed, endpoint) ==
    LET req == getRequiredPermission(endpoint)
    IN IF req # 0 THEN ENDPOINT_PERMISSIONS[req].pattern \in failed ELSE FALSE

\* The endpoint the handler of the tool requests (<<>>: handleToolCall knows
\* no such tool)
toolEndpoint(name) ==
    CASE name = "m365_mail_recent" -> <<"/", "m", "e", "/", "m", "e", "s", "s", "a", "g", "e", "s", "?", "$", "t", "o", "p", "=", "2", "5">>
      [] name = "m365_sharepoint_search_sites" -> <<"/", "s", "i", "t", "e", "s", "?", "s", "e", "a", "r", "c", "h", "=", "q">>
      [] name = "m365_sharepoint_list_libraries" -> <<"/", "s", "i", "t", "e", "s", "/", "s", "1", "/", "d", "r", "i", "v", "e", "s">>
      [] name = "m365_files_get_metadata" -> <<"/", "d", "r", "i", "v", "e", "s", "/", "d", "1", "/", "i", "t", "e", "m", "s", "/", "i", "1">>
      [] name = "m365_teams_list" -> <<"/", "m", "e", "/", "j", "o", "i", "n", "e", "d", "T", "e", "a", "m", "s">>
      [] OTHER -> <<>>

ToolNames ==
    {"m365_mail_recent", "m365_sharepoint_search_sites", "m365_sharepoint_list_libraries",
     "m365_files_get_metadata", "m365_teams_list", "m365_other"}

NoOutcome == [kind |-> "pending"]

\* new PermissionError(message, requiredPermissions, endpoint); the message
\* is kept by its opening words.
PermissionError(message, req, endpoint) ==
    [kind |-> "rejected", name |-> "PermissionError", message |-> message,
     requiredPermissions |-> IF req # 0 THEN ENDPOINT_PERMISSIONS[req].permissions ELSE <<>>,
     endpoint |-> endpoint]

PlainError(kind, message) ==
    [kind |-> kind, name |-> "Error", message |-> message, requiredPermissions |-> <<>>,
     endpoint |-> <<>>]

\* What GraphClient.request does with the response of fetch
responseOutcome(endpoint, status) ==
    IF status \in {401, 403}
    THEN PermissionError("Access denied. Required permissions", getRequiredPermission(endpoint),
                         endpoint)
    ELSE IF status >= 200 /\ status <= 299
    THEN [kind |-> "fulfilled", value |-> "formatted"]
    ELSE PlainError("rejected", "Graph API error")

\* handleToolCall, given how its handler call ended: "thrown" while the try
\* block was running, or a promise "fulfilled" or "rejected" later. The try
\* block returns the handler's promise without awaiting it, so the catch
\* clause sees what is thrown inside the block only.
handleToolCall(handler) ==
    IF handler.kind = "thrown"
    THEN IF handler.name = "PermissionError"
         THEN [kind |-> "fulfilled", value |-> "structured", error |-> handler.message,
               help |-> "getHelpText", requiredPermissions |-> handler.requiredPermissions]
         ELSE [handler EXCEPT !.kind = "rejected"]
    ELSE handler

\* The CallToolRequestSchema handler around await handleToolCall(...)
callToolResult(name, outcome) ==
    IF outcome.kind = "fulfilled"
    THEN [isError |-> FALSE, text |-> outcome]
    ELSE [isError |-> TRUE,
          text |-> [value |-> "Error executing", tool |-> name, message |-> outcome.message]]

\* A tool call as mcp-365 keeps it: state "token" (awaiting getAccessToken),
\* "fetch" (awaiting fetch) or "done"; tokens the access tokens it obtained,
\* sent whether fetch was called, status the response's; failedBefore is
\* history: the calls that had been answered 401 or 403 when this one arrived.
ToolCall(name, state, outcome) ==
    [name |-> name, endpoint |-> toolEndpoint(name), state |-> state, tokens |-> 0,
     sent |-> FALSE, status |-> 0, outcome |-> outcome,
     result |-> IF state = "done" THEN callToolResult(name, handleToolCall(outcome))
                ELSE [isError |-> FALSE, text |-> NoOutcome],
     failedBefore |-> {c \in 1..Len(toolCalls) : toolCalls[c].status \in {401, 403}}]

\* A tool call arrives; it runs up to the await of getAccessToken.
G_Call(name) ==
    /\ Len(toolCalls) < MaxToolCalls
    /\ LET endpoint == toolEndpoint(name)
       IN toolCalls' = Append(toolCalls,
             IF endpoint = <<>>
             THEN ToolCall(name, "done", PlainError("thrown", "Unknown tool"))
             ELSE IF isEndpointBlocked(failedEndpoints, endpoint)
             THEN ToolCall(name, "done",
                     PermissionError("Access denied: This API requires",
                                     getRequiredPermission(endpoint), endpoint))
             ELSE ToolCall(name, "token", NoOutcome))
    /\ UNCHANGED <<failedEndpoints, clientVars, callVars, serverVars, wrapperVars>>

Done(call, outcome) ==
    [call EXCEPT !.state = "done", !.outcome = outcome,
                 !.result = callToolResult(call.name, handleToolCall(outcome))]

\* getAccessToken of call c settles; with a token, fetch is called.
G_Token(c, ok) ==
    /\ toolCalls[c].state = "token"
    /\ toolCalls' = [toolCalls EXCEPT ![c] =
          IF ok THEN [@ EXCEPT !.state = "fetch", !.tokens = @ + 1, !.sent = TRUE]
          ELSE Done(@, PlainError("rejected", "token"))]
    /\ UNCHANGED <<failedEndpoints, clientVars, callVars, serverVars, wrapperVars>>

\* The Graph API answers the request of call c.
G_Response(c, status) ==
    /\ toolCalls[c].state = "fetch"
    /\ LET req == getRequiredPermission(toolCalls[c].endpoint)
       IN failedEndpoints' = IF status \in {401, 403} /\ req # 0
                             THEN failedEndpoints \cup {ENDPOINT_PERMISSIONS[req].pattern}
                             ELSE failedEndpoints
    /\ toolCalls' = [toolCalls EXCEPT ![c] =
          Done([@ EXCEPT !.status = status], responseOutcome(@.endpoint, status))]
    /\ UNCHANGED <<clientVars, callVars, serverVars, wrapperVars>>

InitGraph ==
    /\ GraphIdle
    /\ ServerIdle
    /\ WrapperIdle
    /\ board = [items |-> <<>>, connectors |-> <<>>]
    /\ pageSize = MaxPageSize
    /\ args = [frame_id |-> 0, limitPerFrame |-> 0, maxConnectors |-> 0, direction |-> ""]
    /\ pc = "idle"
    /\ CallIdle

NextGraph ==
    \/ \E name \in ToolNames : G_Call(name)
    \/ \E c \in 1..Len(toolCalls), ok \in BOOLEAN : G_Token(c, ok)
    \/ \E c \in 1..Len(toolCalls), status \in {200, 401, 403, 500} : G_Response(c, status)

SpecGraph == InitGraph /\ [][NextGraph]_vars

\* ------------------------------------------------------------------------
\* mcp-365: getGraphClient and the CallToolRequestSchema handler
\* ------------------------------------------------------------------------

MaxHandlerCalls == 3

\* The tools the handler is called with
HandlerToolNames == {"m365_mail_recent", "m365_teams_list", "m365_other"}

\* new GraphClient(authProvider, config)
GraphClient(authProvider) == [authProvider |-> authProvider, failedEndpoints |-> {}]

\* handleToolCall(name, args, client, config) up to its first await: state
\* "fetch" (awaiting the Graph API; the token is part of that wait) or "done".
\* client is the instance await getGraphClient() gave, blocked whether the
\* instance's failedEndpoints stopped the request.
startToolCall(call, client, instances) ==
    IF call.endpoint = <<>>
    THEN [call EXCEPT !.state = "done", !.client = client]
    ELSE IF isEndpointBlocked(instances[client].failedEndpoints, call.endpoint)
    THEN [call EXCEPT !.state = "done", !.client = client, !.blocked = TRUE]
    ELSE [call EXCEPT !.state = "fetch", !.client = client]

\* A call of the handler: state "auth" while createAuthProvider is awaited.
HandlerCall(name) ==
    [name |-> name, endpoint |-> toolEndpoint(name), state |-> "auth", client |-> 0,
     blocked |-> FALSE, status |-> 0, thrown |-> FALSE]

\* A tool call arrives. getGraphClient finds graphClient set and the tool
\* starts with it, or finds it null and awaits createAuthProvider(config).
H_Call(name) ==
    /\ Len(handlerCalls) < MaxHandlerCalls
    /\ handlerCalls' = Append(handlerCalls,
          IF graphClient # 0
          THEN startToolCall(HandlerCall(name), graphClient, graphClients)
          ELSE HandlerCall(name))
    /\ UNCHANGED <<graphClient, graphClients, authProviders>>
    /\ UNCHANGED <<failedEndpoints, toolCalls, callVars, serverVars, wrapperVars>>

\* createAuthProvider of call c settles. With a provider, getGraphClient
\* constructs a GraphClient, assigns it to graphClient and returns it; a
\* rejection ends the call in the handler's catch.
H_AuthSettled(c, ok) ==
    /\ handlerCalls[c].state = "auth"
    /\ \/ /\ ~ok
          /\ handlerCalls' = [handlerCalls EXCEPT ![c] =
                [@ EXCEPT !.state = "done", !.thrown = TRUE]]
          /\ UNCHANGED <<graphClient, graphClients, authProviders>>
       \/ /\ ok
          /\ authProviders' = authProviders + 1
          /\ graphClients' = Append(graphClients, GraphClient(authProviders + 1))
          /\ graphClient' = Len(graphClients) + 1
          /\ handlerCalls' = [handlerCalls EXCEPT ![c] =
                startToolCall(@, Len(graphClients) + 1, graphClients')]
    /\ UNCHANGED <<failedEndpoints, toolCalls, callVars, serverVars, wrapperVars>>

\* The Graph API answers the request of call c; a 401 or 403 enters the
\* endpoint's pattern into the failedEndpoints of the call's client.
H_Response(c, status) ==
    /\ handlerCalls[c].state = "fetch"
    /\ LET req == getRequiredPermission(handlerCalls[c].endpoint)
           client == handlerCalls[c].client
       IN graphClients' =
            IF status \in {401, 403} /\ req # 0
            THEN [graphClients EXCEPT ![client].failedEndpoints =
                     @ \cup {ENDPOINT_PERMISSIONS[req].pattern}]
            ELSE graphClients
    /\ handlerCalls' = [handlerCalls EXCEPT ![c] =
          [@ EXCEPT !.state = "done", !.status = status]]
    /\ UNCHANGED <<graphClient, authProviders>>
    /\ UNCHANGED <<failedEndpoints, toolCalls, callVars, serverVars, wrapperVars>>

InitClient == InitGraph

NextClient ==
    \/ \E name \in HandlerToolNames : H_Call(name)
    \/ \E c \in 1..Len(handlerCalls), ok \in BOOLEAN : H_AuthSettled(c, ok)
    \/ \E c \in 1..Len(handlerCalls), status \in {200, 403} : H_Response(c, status)

SpecClient == InitClient /\ [][NextClient]_vars

\* ------------------------------------------------------------------------
\* The ADO wrapper (mcp-ado-wrapper/wrapper.js)
\* ------------------------------------------------------------------------

MaxSpawns == 2

\* The names resolvePAT reads, in its order
PatNames == <<"AZURE_DEVOPS_PAT", "ADO_PAT", "AZURE_DEVOPS_EXT_PAT", "SYSTEM_ACCESSTOKEN">>

\* resolvePAT: the trimmed value of the first variable that is set and not
\* blank (<<>>: null); an unset variable is the empty text.
resolvePAT(env) ==
    LET set == {k \in 1..Len(PatNames) : env[PatNames[k]] # <<>> /\ Trim(env[PatNames[k]]) # <<>>}
    IN IF set = {} THEN <<>>
       ELSE Trim(env[PatNames[CHOOSE k \in set : \A j \in set : k <= j]])

\* A variant of preflightPassed that lets every answer pass.
preflightPassedAlways(orgUrl, answer) == TRUE

\* preflight(orgUrl, pat): false when the projects URL does not parse, when
\* the request fails and when the status is outside 2xx (0: no answer).
preflightPassed(orgUrl, answer) ==
    /\ orgUrl.parses
    /\ answer >= 200
    /\ answer < 300

\* process.exit(code)
Exit(code) ==
    /\ wrapperPc' = "exited"
    /\ exitCode' = code

\* spawnOnce: spawn the upstream server; when spawn throws, npx is retried
\* through a shell and a local bin is not.
SpawnOnce(first, retry) ==
    IF first \/ (~wrapperIn.localBin /\ retry)
    THEN /\ spawns' = spawns + 1
         /\ wrapperPc' = "serving"
         /\ UNCHANGED exitCode
    ELSE /\ Exit(1)
         /\ UNCHANGED spawns

\* main after the preflight (lines 236-699): the modes that answer a query
\* and return, the organization slug, npx, spawnOnce.
AfterPreflight(first, retry) ==
    IF wrapperIn.justPreflight THEN Exit(0) /\ UNCHANGED spawns
    ELSE IF wrapperIn.queryMode # "none"
    THEN wrapperPc' = "query" /\ UNCHANGED <<spawns, exitCode>>
    ELSE IF ~wrapperIn.orgUrl.slug \/ ~wrapperIn.npx THEN Exit(1) /\ UNCHANGED spawns
    ELSE SpawnOnce(first, retry)

\* main up to await preflight (lines 101-227)
W_Main(first, retry) ==
    /\ wrapperPc = "start"
    /\ LET p == resolvePAT(wrapperIn.env)
       IN IF wrapperIn.help
          THEN Exit(1) /\ UNCHANGED <<pat, spawns>>
          ELSE /\ pat' = p
               /\ IF p = <<>> \/ wrapperIn.orgUrl.text = ""
                  THEN Exit(1) /\ UNCHANGED spawns
                  ELSE IF ~wrapperIn.noPreflight
                  THEN wrapperPc' = "preflight" /\ UNCHANGED <<spawns, exitCode>>
                  ELSE AfterPreflight(first, retry)
    /\ UNCHANGED <<wrapperIn, preflightResult, callVars, serverVars, graphVars>>

\* preflight settles (lines 227-234) and main goes on.
W_Preflight(answer, first, retry) ==
    /\ wrapperPc = "preflight"
    /\ IF preflightPassed(wrapperIn.orgUrl, answer)
       THEN /\ preflightResult' = [answer |-> answer, ok |-> TRUE]
            /\ AfterPreflight(first, retry)
       ELSE /\ preflightResult' = [answer |-> answer, ok |-> FALSE]
            /\ Exit(1)
            /\ UNCHANGED spawns
    /\ UNCHANGED <<wrapperIn, pat, callVars, serverVars, graphVars>>

\* The request of a query mode ends: the process exits.
W_QueryDone(code) ==
    /\ wrapperPc = "query"
    /\ Exit(code)
    /\ UNCHANGED <<wrapperIn, pat, preflightResult, spawns, callVars, serverVars, graphVars>>

\* child.on('exit') (lines 680-692); code -1: null
W_ChildExit(code, signal) ==
    /\ wrapperPc = "serving"
    /\ IF ~wrapperIn.keepAlive
       THEN Exit(IF signal THEN 1 ELSE IF code = -1 THEN 1 ELSE code)
       ELSE wrapperPc' = "respawn" /\ UNCHANGED exitCode
    /\ UNCHANGED <<wrapperIn, pat, preflightResult, spawns, callVars, serverVars, graphVars>>

\* child.on('error') (lines 693-696)
W_ChildError ==
    /\ wrapperPc = "serving"
    /\ IF ~wrapperIn.keepAlive
       THEN Exit(1)
       ELSE wrapperPc' = "respawn" /\ UNCHANGED exitCode
    /\ UNCHANGED <<wrapperIn, pat, preflightResult, spawns, callVars, serverVars, graphVars>>

\* setTimeout(spawnOnce, 5000) fires.
W_Respawn(first, retry) ==
    /\ wrapperPc = "respawn"
    /\ spawns < MaxSpawns
    /\ SpawnOnce(first, retry)
    /\ UNCHANGED <<wrapperIn, pat, preflightResult, callVars, serverVars, graphVars>>

\* AZURE_DEVOPS_ORG_URL: its text, whether new URL parses it, and whether an
\* organization slug can be derived from it
OrgUrls ==
    { [text |-> "", parses |-> FALSE, slug |-> FALSE],
      [text |-> "https://dev.azure.com/org", parses |-> TRUE, slug |-> TRUE],
      [text |-> "https://dev.azure.com", parses |-> TRUE, slug |-> FALSE],
      [text |-> "dev.azure.com/org", parses |-> FALSE, slug |-> TRUE],
      [text |-> "org", parses |-> FALSE, slug |-> FALSE] }

WrapperEnvs ==
    { [n \in Range(PatNames) |->
          CASE n = "AZURE_DEVOPS_PAT" -> a
            [] n = "ADO_PAT" -> b
            [] n = "AZURE_DEVOPS_EXT_PAT" -> <<>>
            [] n = "SYSTEM_ACCESSTOKEN" -> c] :
      a \in {<<>>, <<" ">>, <<"t">>}, b \in {<<>>, <<" ", "u">>}, c \in {<<>>, <<"s">>} }

InitWrapper ==
    /\ wrapperIn \in [help : BOOLEAN, noPreflight : BOOLEAN, justPreflight : BOOLEAN,
                      keepAlive : BOOLEAN, queryMode : {"none", "list-projects", "work-items"},
                      env : WrapperEnvs, orgUrl : OrgUrls, npx : BOOLEAN, localBin : BOOLEAN]
    /\ wrapperPc = "start"
    /\ pat = <<>>
    /\ preflightResult = [answer |-> -1, ok |-> FALSE]
    /\ spawns = 0
    /\ exitCode = -1
    /\ GraphIdle
    /\ ServerIdle
    /\ board = [items |-> <<>>, connectors |-> <<>>]
    /\ pageSize = MaxPageSize
    /\ args = [frame_id |-> 0, limitPerFrame |-> 0, maxConnectors |-> 0, direction |-> ""]
    /\ pc = "idle"
    /\ CallIdle

NextWrapper ==
    \/ \E first, retry \in BOOLEAN : W_Main(first, retry)
    \/ \E answer \in {0, 200, 401}, first, retry \in BOOLEAN : W_Preflight(answer, first, retry)
    \/ \E code \in {0, 1, 2} : W_QueryDone(code)
    \/ \E code \in {-1, 0, 3}, signal \in BOOLEAN : W_ChildExit(code, signal)
    \/ W_ChildError
    \/ \E first, retry \in BOOLEAN : W_Respawn(first, retry)

SpecWrapper == InitWrapper /\ [][NextWrapper]_vars

\* ------------------------------------------------------------------------
\* Both tools together
\* ------------------------------------------------------------------------

InitTools == InitMermaid \/ InitErd

NextTools == NextMermaid \/ NextErd

SpecTools == InitTools /\ [][NextTools]_vars

\* ------------------------------------------------------------------------
\* Properties
\* ------------------------------------------------------------------------

\* The tables frame_to_mermaid derived before it returned
Analysis == tables

FlowchartReturned == pc = "returned" /\ response.kind = "flowchart"

ErdReturned == pc = "returned" /\ response.kind = "erd"

\* Does following parentOf from id reach target in at most n steps?
RECURSIVE reachesByParent(_, _, _, _)
reachesByParent(t, id, target, n) ==
    IF n = 0 \/ parentGet(t, id) = 0 THEN FALSE
    ELSE parentGet(t, id) = target \/ reachesByParent(t, parentGet(t, id), target, n - 1)

\* How often does x occur in the sequence q?
Occurrences(q, x) == Cardinality({i \in 1..Len(q) : q[i] = x})

\* C2: containment is acyclic and single-parent: following parentOf from an
\* item never leads back to it, and an item is in the child list of at most
\* one parent, once.
InvC2_ContainmentAcyclic ==
    FlowchartReturned =>
        \A id \in Range(Analysis.ids) :
            /\ ~reachesByParent(Analysis, id, id, Len(Analysis.ids))
            /\ \A p, q \in Range(Analysis.ids) :
                  Occurrences(childrenGet(Analysis, p), id) > 0
                  /\ Occurrences(childrenGet(Analysis, q), id) > 0 => p = q
            /\ \A p \in Range(Analysis.ids) : Occurrences(childrenGet(Analysis, p), id) <= 1

\* An item inside a container that itself lies inside a container
WitC2_NestedContainers ==
    /\ FlowchartReturned
    /\ \E id \in Range(Analysis.ids) :
          /\ parentGet(Analysis, id) # 0
          /\ parentGet(Analysis, parentGet(Analysis, id)) # 0

\* Is id the id of a fetched item of a node type?
IsNodeId(id) == \E i \in 1..Len(items) : items[i].id = id /\ items[i].type \in nodeTypes

\* Are both ends of the connector given, and nodes of the diagram?
JoinsNodes(c) ==
    c.startItem # 0 /\ c.endItem # 0 /\ IsNodeId(c.startItem) /\ IsNodeId(c.endItem)

\* The edge lines of the returned diagram text
EdgeLines == SelectSeq(response.mermaid, LAMBDA l : l.kind = "edge")

\* C3: an inspected connector between two nodes has exactly one entry in edges
\* and a connector with a missing end or an end that is no node has none; the
\* edge lines of the text are the entries of edges, one line each, in order.
InvC3_OneEdgePerConnector ==
    FlowchartReturned =>
        /\ \A k \in 1..Len(connectors) :
              Cardinality({i \in 1..Len(response.edges) :
                              response.edges[i].connectorId = connectors[k].id})
                 = IF JoinsNodes(connectors[k])
                   THEN Occurrences([j \in 1..Len(connectors) |-> connectors[j].id],
                                    connectors[k].id)
                   ELSE 0
        /\ \A i \in 1..Len(response.edges) :
              ~response.edges[i].inferred =>
                 \E k \in 1..Len(connectors) :
                    /\ connectors[k].id = response.edges[i].connectorId
                    /\ connectors[k].startItem = response.edges[i].fromId
                    /\ connectors[k].endItem = response.edges[i].toId
        /\ Len(EdgeLines) = Len(response.edges)
        /\ \A i \in 1..Len(response.edges) :
              /\ EdgeLines[i].a = response.edges[i].fromAlias
              /\ EdgeLines[i].b = response.edges[i].toAlias
              /\ EdgeLines[i].a # 0
              /\ EdgeLines[i].b # 0

\* A connector between two nodes was inspected and has its edge line
WitC3_ConnectorRendered ==
    /\ FlowchartReturned
    /\ \E k \in 1..Len(connectors) : JoinsNodes(connectors[k])
    /\ Len(EdgeLines) > 0

\* The inferred entries of edges
InferredEdges == SelectSeq(response.edges, LAMBDA e : e.inferred)

\* C4: no inferred edge top -> bottom when an explicit connector from top to
\* bottom is among the connectors, and no ordered pair has two inferred edges.
InvC4_InferredOnlyWithoutExplicit ==
    FlowchartReturned =>
        /\ \A i \in 1..Len(InferredEdges) :
              ~\E k \in 1..Len(connectors) :
                  /\ connectors[k].startItem = InferredEdges[i].fromId
                  /\ connectors[k].endItem = InferredEdges[i].toId
        /\ \A i, j \in 1..Len(InferredEdges) :
              /\ InferredEdges[i].fromId = InferredEdges[j].fromId
              /\ InferredEdges[i].toId = InferredEdges[j].toId
              => i = j

\* Two stacked nodes that an explicit connector joins from top to bottom
WitC4_StackedAndConnected ==
    /\ FlowchartReturned
    /\ \E k \in 1..Len(connectors) :
          /\ <<connectors[k].startItem, connectors[k].endItem>>
                \in Range(stackingPairsOf(Analysis, groupKeys(Analysis)))
          /\ JoinsNodes(connectors[k])

\* Is the item a parent or child of the containment relation, a region or an
\* end of an inferred edge?
InGeometry(id) ==
    \/ parentGet(Analysis, id) # 0
    \/ childrenHas(Analysis, id)
    \/ id \in Range(Analysis.regionIds)
    \/ \E i \in 1..Len(InferredEdges) :
          InferredEdges[i].fromId = id \/ InferredEdges[i].toId = id

\* The node lines of the item in the returned diagram text
NodeLinesOf(id) ==
    {i \in 1..Len(response.mermaid) :
        /\ response.mermaid[i].kind = "node"
        /\ response.mermaid[i].a \in {n \in 1..Len(response.nodes) : response.nodes[n].id = id}}

\* Is the item's position or geometry missing or not numeric?
PositionOrGeometryMissing(it) ==
    ~IsNum(it.posX) \/ ~IsNum(it.posY) \/ ~IsNum(it.width) \/ ~IsNum(it.height)

\* Is there no number for x (position.x, else geometry.x), for y, for the
\* width or for the height of the item?
NoResolvableBox(it) ==
    \/ ~IsNum(it.posX) /\ ~IsNum(it.geoX)
    \/ ~IsNum(it.posY) /\ ~IsNum(it.geoY)
    \/ ~IsNum(it.width)
    \/ ~IsNum(it.height)

\* C5 as stated: a node item whose position or geometry is missing or not
\* numeric is no parent, no child, no region and no end of an inferred edge,
\* and has exactly one node line.
CexC5_MissingPositionOutsideGeometry ==
    FlowchartReturned =>
        \A i \in 1..Len(items) :
            IsNodeItem(items[i]) /\ PositionOrGeometryMissing(items[i]) =>
                ~InGeometry(items[i].id) /\ Cardinality(NodeLinesOf(items[i].id)) = 1

\* C5: a node item for which no box can be resolved (no number for x from
\* position.x or else geometry.x, for y likewise, for the width or for the
\* height) is no parent, no child, no region and no end of an inferred edge,
\* and has exactly one node line.
InvC5_NoBoxOutsideGeometry ==
    FlowchartReturned =>
        \A i \in 1..Len(items) :
            IsNodeItem(items[i]) /\ NoResolvableBox(items[i]) =>
                ~InGeometry(items[i].id) /\ Cardinality(NodeLinesOf(items[i].id)) = 1

\* A node item without a box next to nodes that are in the containment relation
WitC5_NoBoxBesideContainers ==
    /\ FlowchartReturned
    /\ \E i \in 1..Len(items) : IsNodeItem(items[i]) /\ NoResolvableBox(items[i])
    /\ \E id \in Range(Analysis.ids) : parentGet(Analysis, id) # 0

\* Did a request of one of the kinds fail?
Failed(kinds) == \E i \in 1..Len(requests) : requests[i].kind \in kinds /\ ~requests[i].ok

\* The call ended with the formatted error and without a diagram
Aborted == pc = "thrown" /\ error.thrown /\ error.prefix # "" /\ response = NoResponse

\* C6 as stated: a failure of any paginated fetch (frame listing, frame
\* children, board items, connectors) ends the call with the formatted error
\* and without a diagram.
CexC6_AnyPageFailureAborts ==
    Failed({"frames", "children", "items", "connectors"}) => Aborted

\* C6: a failure of the frame children, board items or connectors fetch ends
\* the call with the formatted error and without a diagram; a failure of the
\* frame listing of frame_to_mermaid does not end the call: the extraction goes
\* on with the requested frame as its only seed.
InvC6_PageFailureAbortsButListing ==
    /\ Failed({"children", "items", "connectors"}) =>
          /\ Aborted
          /\ ~requests[Len(requests)].ok
          /\ \A i \in 1..(Len(requests) - 1) :
                requests[i].kind \in {"children", "items", "connectors"} => requests[i].ok
    /\ Failed({"frames"}) =>
          /\ seedFrameIds = <<args.frame_id>>
          /\ requests[Len(requests)].kind = "frames" => pc \in {"children", "connectors"}
    /\ pc = "thrown" => Failed({"children", "items", "connectors"})

\* A fetch failed after items were accumulated, and the call ended without a
\* diagram
WitC6_AbortedWithPartialData ==
    /\ Aborted
    /\ items # <<>>
    /\ Failed({"children", "items", "connectors"})

\* C7 as stated: after a non-2xx answer the call ends by returning the error
\* string with status and body; nothing is thrown.
CexC7_ErrorStringReturned ==
    error.status # 0 => pc = "returned" /\ ~error.thrown

\* Are the numbers of a frame's box there (x and y from position or else from
\* geometry, width, height)?
FrameGeometryNumeric(f) ==
    /\ IsNum(f.posX) \/ IsNum(f.geoX)
    /\ IsNum(f.posY) \/ IsNum(f.geoY)
    /\ IsNum(f.width)
    /\ IsNum(f.height)

\* frame_to_mermaid could not fetch the root frame or the frame has no numeric
\* position/geometry (the root request is the call's second request).
RootUnresolved ==
    /\ pc \notin {"title", "rootMeta"}
    /\ ~requests[2].ok \/ ~FrameGeometryNumeric(ApiItem(args.frame_id))

\* The frame an item of the board belongs to (0: none, also for no such item)
FrameOf(id) == IF ItemExists(id) THEN ApiItem(id).parent ELSE 0

\* C8 as stated: with the root frame unresolved the call returns, and every
\* node is an item of the requested frame.
CexC8_OnlyRequestedFrame ==
    RootUnresolved /\ FlowchartReturned =>
        \A n \in 1..Len(response.nodes) : FrameOf(response.nodes[n].id) = args.frame_id

\* The frames reached from the frames of S through the parent references of
\* the board's frames
RECURSIVE FramesBelow(_)
FramesBelow(S) ==
    LET more == {board.items[i].id : i \in {j \in 1..Len(board.items) :
                    board.items[j].type = "frame" /\ board.items[j].parent \in S}}
    IN IF more \subseteq S THEN S ELSE FramesBelow(S \cup more)

\* C8: with the root frame unresolved the call does not end for that reason, no
\* frame listing is requested, the requested frame is the only seed, and every
\* node is an item of the requested frame or of a frame reached from it through
\* parent references (a frame that only lies within the requested frame
\* contributes nothing).
InvC8_RequestedFrameAndItsChildFrames ==
    RootUnresolved =>
        /\ seedFrameIds = <<args.frame_id>>
        /\ \A i \in 1..Len(requests) : requests[i].kind # "frames"
        /\ Len(requests) = 2 => pc = "children" /\ curFrame = args.frame_id
        /\ visitedFrames \subseteq FramesBelow({args.frame_id})
        /\ \A i \in 1..Len(items) : items[i].parent \in FramesBelow({args.frame_id})
        /\ FlowchartReturned =>
              \A n \in 1..Len(response.nodes) :
                  FrameOf(response.nodes[n].id) \in FramesBelow({args.frame_id})

\* The root frame unresolved, and a node of the returned diagram that belongs to
\* a child frame of the requested frame
WitC8_ChildFrameItemIncluded ==
    /\ RootUnresolved
    /\ FlowchartReturned
    /\ \E n \in 1..Len(response.nodes) : FrameOf(response.nodes[n].id) # args.frame_id

\* frame_to_erd could not fetch the frame or the frame has no numeric
\* position/geometry (the frame request is the call's second request).
ErdFrameUnresolved ==
    /\ pc \notin {"erdTitle", "erdMeta"}
    /\ ~requests[2].ok \/ ~FrameGeometryNumeric(ApiItem(args.frame_id))

\* Is the inspected connector one between two items of the requested frame
\* that are no sticky notes?
JoinsFrameEntities(c) ==
    /\ ItemExists(c.startItem)
    /\ ItemExists(c.endItem)
    /\ FrameOf(c.startItem) = args.frame_id
    /\ FrameOf(c.endItem) = args.frame_id
    /\ ApiItem(c.startItem).type # "sticky_note"
    /\ ApiItem(c.endItem).type # "sticky_note"

\* C9 as stated: with the frame unresolved the call returns a result that
\* covers the frame's items: the inspected connectors between its entities are
\* relationships of the result.
CexC9_FrameStillCovered ==
    ErdFrameUnresolved /\ ErdReturned =>
        \A k \in 1..Len(connectors) :
            JoinsFrameEntities(connectors[k]) =>
                \E i \in 1..Len(response.relationships) :
                    response.relationships[i].connectorId = connectors[k].id

\* C9: with the frame unresolved the call does not end for that reason, but it
\* requests no board items and its result, no error, has no entities and no
\* relationships.
InvC9_UnresolvedFrameGivesEmptyDiagram ==
    ErdFrameUnresolved =>
        /\ items = <<>>
        /\ \A i \in 1..Len(requests) : requests[i].kind # "items"
        /\ Len(requests) = 2 => pc = "erdConnectors"
        /\ ErdReturned =>
              /\ response.entities = <<>>
              /\ response.relationships = <<>>
              /\ \A i \in 1..Len(response.erd) :
                    response.erd[i].kind \notin {"entity", "relationship"}
              /\ ~error.thrown

\* The frame unresolved and a result returned although connectors between the
\* frame's entities were inspected
WitC9_EmptyDespiteRelationships ==
    /\ ErdFrameUnresolved
    /\ ErdReturned
    /\ \E k \in 1..Len(connectors) : JoinsFrameEntities(connectors[k])

\* The cardinality token the claim gives for a stroke cap
ExpectedCardinality(cap) ==
    IF cap \in {"erd_one", "erd_only_one"} THEN <<"|", "|">>
    ELSE IF cap = "erd_zero_or_one" THEN <<"o", "|">>
    ELSE IF cap \in {"erd_many", "erd_one_or_many"} THEN <<"|", "{">>
    ELSE IF cap = "erd_zero_or_many" THEN <<"o", "{">>
    ELSE <<"|", "|">>

\* The relationship lines of the returned ER diagram text
RelationshipLines == SelectSeq(response.erd, LAMBDA l : l.kind = "relationship")

\* The connector a relationship was made from
ConnectorOf(r) == connectors[CHOOSE k \in 1..Len(connectors) : connectors[k].id = r.connectorId]

\* C10: the i-th relationship line reads "  From <left>--<right> To", followed
\* by " : label" when the connector has a caption, where left is the token of
\* the connector's startStrokeCap and right that of its endStrokeCap; a
\* connector from EntityA to EntityB with no start cap and end cap erd_many
\* reads "  EntityA ||--|{ EntityB".
InvC10_CardinalityRendering ==
    ErdReturned =>
        /\ Len(RelationshipLines) = Len(response.relationships)
        /\ \A i \in 1..Len(response.relationships) :
              LET r == response.relationships[i]
              IN /\ \E k \in 1..Len(connectors) : connectors[k].id = r.connectorId
                 /\ r.leftCardinality = ExpectedCardinality(ConnectorOf(r).startStrokeCap)
                 /\ r.rightCardinality = ExpectedCardinality(ConnectorOf(r).endStrokeCap)
                 /\ SubSeq(RelationshipLines[i].text, 1,
                           Len(r.fromEntity) + Len(r.toEntity) + 10)
                       = <<" ", " ">> \o r.fromEntity \o <<" ">>
                         \o ExpectedCardinality(ConnectorOf(r).startStrokeCap)
                         \o <<"-", "-">>
                         \o ExpectedCardinality(ConnectorOf(r).endStrokeCap)
                         \o <<" ">> \o r.toEntity
                 /\ (ConnectorOf(r).caption = <<>>) =>
                       Len(RelationshipLines[i].text) = Len(r.fromEntity) + Len(r.toEntity) + 10
                 /\ /\ r.connectorId = 91
                    /\ ConnectorOf(r).startStrokeCap = ""
                    /\ ConnectorOf(r).endStrokeCap = "erd_many"
                    => RelationshipLines[i].text
                          = <<" ", " ", "E", "n", "t", "i", "t", "y", "A", " ", "|", "|",
                              "-", "-", "|", "{", " ", "E", "n", "t", "i", "t", "y", "B">>

\* A relationship from a connector with no start cap and end cap erd_many next
\* to one with other caps
WitC10_ManyEndRendered ==
    /\ ErdReturned
    /\ Len(response.relationships) = 2
    /\ ConnectorOf(response.relationships[1]).startStrokeCap = ""
    /\ ConnectorOf(response.relationships[1]).endStrokeCap = "erd_many"
    /\ ConnectorOf(response.relationships[2]).startStrokeCap = "erd_zero_or_many"

\* Is id the id of an item frame_to_erd found inside the frame that is no
\* sticky note?
IsFrameNonSticky(id) ==
    \E i \in 1..Len(items) : items[i].id = id /\ items[i].type # "sticky_note"

\* Is the connector a qualifying one: both ends inside the frame, neither a
\* sticky note?
Qualifies(c) == IsFrameNonSticky(c.startItem) /\ IsFrameNonSticky(c.endItem)

\* The ids of the returned entities
EntityIdSet == {response.entities[k].id : k \in 1..Len(response.entities)}

\* Does the centre of the board item lie within the box of the requested frame?
CentreInsideFrame(it) ==
    LET f == ApiItem(args.frame_id)
    IN /\ IsNum(it.posX) /\ IsNum(it.posY) /\ IsNum(it.width) /\ IsNum(it.height)
       /\ 2 * it.posX[1] >= 2 * f.posX[1] - f.width[1]
       /\ 2 * it.posX[1] <= 2 * f.posX[1] + f.width[1]
       /\ 2 * it.posY[1] >= 2 * f.posY[1] - f.height[1]
       /\ 2 * it.posY[1] <= 2 * f.posY[1] + f.height[1]

TextWithBreaks(it) ==
    ReplaceAll("tag",
       ReplaceAll("/p",
          ReplaceAll("p",
             ReplaceAll("br",
                ReplaceAll("entity", it.title \o <<"\n">> \o it.content, 1), 1), 1), 1), 1)

\* The lines of that text, trimmed, the empty ones dropped
TextLines(it) ==
    LET split == splitLines(TextWithBreaks(it))
    IN SelectSeq([i \in 1..Len(split) |-> Trim(split[i])], LAMBDA l : l # <<>>)

\* Does the line contain pk or id in any case?
HasPkOrId(line) ==
    \E i \in 1..Len(line) :
        \/ LitAt(line, i, <<"p", "k">>, <<"P", "K">>, TRUE)
        \/ LitAt(line, i, <<"i", "d">>, <<"I", "D">>, TRUE)

\* C12: the candidates are the lines of the item's text that contain pk or id,
\* and the first line of the text when no line does.
CexC12_CandidatesAreMatchingLines ==
    pc = "pkDone" =>
        LET lines == TextLines(items[1])
            hits == SelectSeq(lines, HasPkOrId)
        IN response.pkCandidates =
              IF hits # <<>> THEN hits
              ELSE IF lines # <<>> THEN <<lines[1]>> ELSE <<>>

\* What the function returns instead: the whole text as one line, with every
\* run of white space and every line break a single blank.
PkWholeTextIsTheOnlyCandidate ==
    pc = "pkDone" =>
        LET plain == htmlToPlain(Trim(items[1].title \o <<"\n">> \o items[1].content))
        IN /\ response.pkCandidates = IF plain = <<>> THEN <<>> ELSE <<plain>>
           /\ \A k \in 1..Len(response.pkCandidates) :
                 \A j \in 1..Len(response.pkCandidates[k]) :
                    response.pkCandidates[k][j] # "\n"

IsFrameTool(tool) == tool \in {"frame_to_mermaid", "frame_to_erd"}

\* The requests call c has issued
RequestsOf(c) == {l \in httpLog : l.call = c}

\* Was the call given a board_id that is not blank?
HasBoardIdArg(call) == call.args.board_id # <<>> /\ Trim(call.args.board_id[1]) # <<>>

\* C13: a frame_to_mermaid or frame_to_erd call whose frame_id is missing or
\* empty, or that has no board_id while no active board is set when it
\* arrives, ends rejected and has issued no HTTP request.
InvC13_RejectedBeforeAnyRequest ==
    \A c \in 1..Len(calls) :
        /\ IsFrameTool(calls[c].tool)
        /\ \/ calls[c].args.frame_id \in {<<>>, << <<>> >>}
           \/ calls[c].args.board_id = <<>> /\ calls[c].activeAtEntry = <<>>
        => /\ calls[c].state \in {"invalid", "thrown"}
           /\ RequestsOf(c) = {}

\* One frame call was rejected for its frame_id and one for the missing
\* board, while the server has no active board.
WitC13_BothRejections ==
    /\ \E c \in 1..Len(calls) :
          /\ IsFrameTool(calls[c].tool)
          /\ calls[c].args.frame_id \in {<<>>, << <<>> >>}
          /\ calls[c].state = "invalid"
    /\ \E c \in 1..Len(calls) :
          /\ IsFrameTool(calls[c].tool)
          /\ calls[c].args.frame_id = << <<"f">> >>
          /\ calls[c].args.board_id = <<>>
          /\ calls[c].activeAtEntry = <<>>
          /\ calls[c].state = "thrown"

\* The requests of the calls that resolve their board go to the trimmed
\* board_id when one is given and to the active board of their arrival
\* otherwise.
UsesResolvedBoard ==
    \A l \in httpLog :
        calls[l.call].tool # "set_active_board" =>
            l.board = IF HasBoardIdArg(calls[l.call])
                      THEN Trim(calls[l.call].args.board_id[1])
                      ELSE calls[l.call].activeAtEntry

\* A step that changes the active board is the successful end of a
\* set_active_board call.
OnlySetActiveBoardChanges ==
    activeBoardId' # activeBoardId =>
        \E c \in 1..Len(calls) :
            /\ calls[c].tool = "set_active_board"
            /\ calls[c].state = "waiting"
            /\ calls'[c].state = "returned"

\* C14: a call with a non-blank board_id sends its requests to that board and
\* a call without one to the board that is active when it arrives; no step
\* but the success of set_active_board changes the active board.
PropC14_BoardResolution == []UsesResolvedBoard /\ [][OnlySetActiveBoardChanges]_vars

\* A call with a board_id went to that board while another board stayed
\* active, and a call without board_id went to the active one.
WitC14_OverrideBesideActive ==
    /\ activeBoardId = B01
    /\ \E c, d \in 1..Len(calls) :
          /\ calls[c].args.board_id = <<B02>>
          /\ calls[c].tool = "get_specific_board"
          /\ \E l \in RequestsOf(c) : l.board = B02
          /\ calls[d].args.board_id = <<>>
          /\ calls[d].tool = "frame_to_mermaid"
          /\ d > c
          /\ \E l \in RequestsOf(d) : l.board = B01

\* C15: the active board is the startup one or the trimmed id of the
\* set_active_board call that succeeded last, a set_active_board call that
\* failed has changed nothing, and a call without board_id that arrives after
\* such a success sends its requests to that new board.
CexC15_LaterCallsUseNewBoard ==
    /\ activeSetBy # 0 =>
          /\ calls[activeSetBy].tool = "set_active_board"
          /\ calls[activeSetBy].state = "returned"
          /\ activeBoardId = Trim(calls[activeSetBy].args.board_id[1])
    /\ \A d \in 1..Len(calls) :
          /\ calls[d].tool # "set_active_board"
          /\ calls[d].state # "invalid"
          /\ calls[d].args.board_id = <<>>
          /\ calls[d].setter # 0
          => /\ RequestsOf(d) # {}
             /\ \A l \in RequestsOf(d) :
                   l.board = Trim(calls[calls[d].setter].args.board_id[1])

\* The positions of the collected items that are children of frame f
CollectedFrom(f) == {i \in 1..Len(items) : items[i].parent = f}

\* The children of frame f on the board
ChildrenOnBoard(f) == {i \in 1..Len(board.items) : board.items[i].parent = f}

\* C16: with limitPerFrame = L given, frame_to_mermaid holds at most L
\* collected items of any one frame (at most L in all, even), and it is about
\* to request a page of children only while fewer than L items are collected.
InvC16_CapOnCollectedItems ==
    pc \in {"children", "connectors", "returned", "thrown"} /\ args.limitPerFrame # 0 =>
        /\ \A f \in visitedFrames : Cardinality(CollectedFrom(f)) <= args.limitPerFrame
        /\ Len(items) <= args.limitPerFrame
        /\ pc = "children" => Len(items) < args.limitPerFrame

\* The cap stopped the traversal inside a frame that has more children than
\* the cap, with pages left unrequested.
WitC16_StoppedInsideLargeFrame ==
    /\ pc = "connectors"
    /\ args.limitPerFrame = MaxLimit
    /\ pageSize = 1
    /\ Len(items) = args.limitPerFrame
    /\ \E f \in visitedFrames :
          /\ Cardinality(ChildrenOnBoard(f)) > args.limitPerFrame
          /\ Cardinality(CollectedFrom(f)) = args.limitPerFrame
    /\ Len(SelectSeq(requests, LAMBDA r : r.kind = "children")) = args.limitPerFrame

\* Did the tool call end in a PermissionError?
HitPermissionError(call) ==
    /\ call.state = "done"
    /\ call.outcome.kind # "fulfilled"
    /\ call.outcome.name = "PermissionError"

\* C17: a tool call that fails with a PermissionError returns, not as an
\* error, the structured result with error, help and requiredPermissions.
CexC17_StructuredPermissionResult ==
    \A c \in 1..Len(toolCalls) :
        HitPermissionError(toolCalls[c]) =>
            /\ ~toolCalls[c].result.isError
            /\ toolCalls[c].result.text.value = "structured"
            /\ toolCalls[c].result.text.error = toolCalls[c].outcome.message
            /\ toolCalls[c].result.text.requiredPermissions
                  = toolCalls[c].outcome.requiredPermissions

\* Was the call turned away by request before it asked for a token?
Blocked(call) == HitPermissionError(call) /\ call.tokens = 0 /\ ~call.sent

\* C18: a request to an endpoint that the Graph API answered with 401 before
\* is awaiting a token, or obtained one and was sent, or failed to obtain one.
CexC18_RetriedAfter401 ==
    \A d \in 1..Len(toolCalls) :
        (\E c \in toolCalls[d].failedBefore :
            /\ toolCalls[c].status = 401
            /\ toolCalls[c].endpoint = toolCalls[d].endpoint)
        => \/ toolCalls[d].state = "token"
           \/ toolCalls[d].tokens = 1 /\ toolCalls[d].sent
           \/ /\ toolCalls[d].state = "done"
              /\ toolCalls[d].outcome.kind # "fulfilled"
              /\ toolCalls[d].outcome.message = "token"

\* The patterns of ENDPOINT_PERMISSIONS the endpoint contains
PatternsIn(endpoint) ==
    {k \in 1..Len(ENDPOINT_PERMISSIONS) :
        \E i \in 1..Len(endpoint) :
            /\ i + Len(ENDPOINT_PERMISSIONS[k].chars) - 1 <= Len(endpoint)
            /\ SubSeq(endpoint, i, i + Len(ENDPOINT_PERMISSIONS[k].chars) - 1)
                  = ENDPOINT_PERMISSIONS[k].chars}

\* The first of them (0: none)
FirstPatternIn(endpoint) ==
    IF PatternsIn(endpoint) = {} THEN 0
    ELSE CHOOSE k \in PatternsIn(endpoint) : \A j \in PatternsIn(endpoint) : k <= j

\* Both for the endpoint of each tool
PatternsOfTool == [name \in ToolNames |-> PatternsIn(toolEndpoint(name))]

FirstPatternOfTool == [name \in ToolNames |-> FirstPatternIn(toolEndpoint(name))]

PatInEnvironment ==
    \E k \in 1..Len(PatNames) :
        \E i \in 1..Len(wrapperIn.env[PatNames[k]]) :
            wrapperIn.env[PatNames[k]][i] \notin WhiteSpace

\* Did the projects call of the preflight get a 2xx answer?
PreflightSucceeded ==
    /\ wrapperIn.orgUrl.parses
    /\ preflightResult.answer \in 200..299

PreflightFailed == preflightResult.answer # -1 /\ ~PreflightSucceeded

\* C20: an upstream server has been spawned only if a PAT and an organization
\* URL were there and either the projects call of the preflight succeeded or
\* --no-preflight was given; after a failed preflight the process has exited
\* with code 1 and spawned nothing.
InvC20_SpawnOnlyAfterChecks ==
    wrapperPc # "off" =>
        /\ spawns > 0 =>
              /\ PatInEnvironment
              /\ pat # <<>>
              /\ wrapperIn.orgUrl.text # ""
              /\ PreflightSucceeded \/ wrapperIn.noPreflight
              /\ wrapperIn.noPreflight => preflightResult.answer = -1
        /\ PreflightFailed =>
              /\ wrapperPc = "exited"
              /\ exitCode = 1
              /\ spawns = 0

\* The server was spawned again under --keep-alive after one successful
\* preflight.
WitC20_RespawnedAfterPreflight ==
    /\ spawns = MaxSpawns
    /\ wrapperPc = "serving"
    /\ PreflightSucceeded
    /\ ~wrapperIn.noPreflight

\* The colour of a node (fill colour, else card theme, else background colour;
\* "": none)
ColourOf(id) == Analysis.color[id]

\* Do both nodes have a colour, and the same one?
SameColour(p, c) == ColourOf(p) # "" /\ ColourOf(p) = ColourOf(c)

\* Is the node's colour one of the region colours?
RegionColoured(p) == ColourOf(p) # "" /\ ColourOf(p) \in Analysis.regionColors

\* Are P's width and height each at least 1.02 x (P region-coloured) or 1.05 x
\* (otherwise) those of C?
ScaleOk(p, c) ==
    LET scale100 == IF RegionColoured(p) THEN 102 ELSE 105
    IN /\ 100 * Analysis.box[p].width >= scale100 * Analysis.box[c].width
       /\ 100 * Analysis.box[p].height >= scale100 * Analysis.box[c].height

\* Four times the area of the intersection of the two boxes (the boxes keep
\* twice the coordinates)
InterArea4(p, c) ==
    LET P == Analysis.box[p]
        C == Analysis.box[c]
    IN Max2(0, Min2(P.right, C.right) - Max2(P.left, C.left))
       * Max2(0, Min2(P.bottom, C.bottom) - Max2(P.top, C.top))

\* Is the intersection area divided by C's area at least 0.6 (P region-coloured)
\* or 0.8 (otherwise)?
OverlapOk(p, c) ==
    10 * InterArea4(p, c)
        >= (IF RegionColoured(p) THEN 6 ELSE 8) * 4 * boxArea(Analysis.box[c])

\* The nodes with a box
Boxed == {id \in Range(Analysis.ids) : Analysis.box[id].ok}

\* The other nodes with a box that pass the colour, scale and overlap filters
\* for the child
CandidatesOf(c) ==
    {p \in Boxed \ {c} : ~SameColour(p, c) /\ ScaleOk(p, c) /\ OverlapOk(p, c)}

\* Is the item a node with the given size, centred at the origin?
CentredBox(it, w, h) ==
    /\ IsNodeItem(it)
    /\ it.posX = <<0>> /\ it.posY = <<0>>
    /\ it.width = <<w>> /\ it.height = <<h>>

\* C21: for every child with a box, the assigned container is a candidate of
\* minimal area among the other nodes that pass the colour, scale and overlap
\* filters, and the child has no container exactly when there is no candidate;
\* two nodes of 200x100 and 100x50 around the same centre and of different
\* colours, alone in the frame, make the larger the container of the smaller.
InvC21_BestParentIsSmallestCandidate ==
    FlowchartReturned =>
        /\ \A c \in Boxed :
              /\ parentGet(Analysis, c) = 0 <=> CandidatesOf(c) = {}
              /\ parentGet(Analysis, c) # 0 =>
                    /\ parentGet(Analysis, c) \in CandidatesOf(c)
                    /\ \A q \in CandidatesOf(c) :
                          boxArea(Analysis.box[parentGet(Analysis, c)])
                             <= boxArea(Analysis.box[q])
        /\ \A i, j \in 1..Len(items) :
              /\ Len(items) = 2
              /\ CentredBox(items[i], 200, 100)
              /\ CentredBox(items[j], 100, 50)
              /\ getItemColor(items[i]) # getItemColor(items[j])
              => /\ parentGet(Analysis, items[j].id) = items[i].id
                 /\ parentGet(Analysis, items[i].id) = 0

\* A child with two candidates of different areas, the larger one first in
\* the frame, is in the smaller one
WitC21_TighterOfTwoCandidates ==
    /\ FlowchartReturned
    /\ \E c \in Boxed : \E i, j \in 1..Len(Analysis.ids) :
          /\ i < j
          /\ Analysis.ids[i] \in CandidatesOf(c)
          /\ Analysis.ids[j] \in CandidatesOf(c)
          /\ boxArea(Analysis.box[Analysis.ids[j]]) < boxArea(Analysis.box[Analysis.ids[i]])
          /\ parentGet(Analysis, c) = Analysis.ids[j]

\* C22: every inferred container P of a child C passes all filters: P and C
\* do not both have a colour that is the same, P's width and height are each
\* at least 1.02 x (P region-coloured) or 1.05 x (otherwise) those of C, and
\* the intersection area divided by C's area is at least 0.6 (P region-coloured)
\* or 0.8 (otherwise); two nodes of the same size never contain one another.
InvC22_ContainerPassesAllFilters ==
    FlowchartReturned =>
        \A c \in Range(Analysis.ids) :
            LET p == parentGet(Analysis, c)
            IN p # 0 =>
                /\ p \in Boxed /\ c \in Boxed /\ p # c
                /\ ~SameColour(p, c)
                /\ ScaleOk(p, c)
                /\ OverlapOk(p, c)
                /\ ~(/\ Analysis.box[p].width = Analysis.box[c].width
                     /\ Analysis.box[p].height = Analysis.box[c].height)

\* Two nodes of the same size and of different colours overlap by 0.8 of their
\* area or more, and neither is the other's container, while some node of
\* the frame has a container
WitC22_SameSizeOverlapNoContainer ==
    /\ FlowchartReturned
    /\ \E p, c \in Boxed :
          /\ p # c
          /\ Analysis.box[p].width = Analysis.box[c].width
          /\ Analysis.box[p].height = Analysis.box[c].height
          /\ ~SameColour(p, c)
          /\ OverlapOk(p, c)
          /\ parentGet(Analysis, c) # p
          /\ parentGet(Analysis, p) # c
    /\ \E c \in Boxed : parentGet(Analysis, c) # 0

\* Twice the vertical centre of a node's box (the boxes keep twice the
\* coordinates, so top + bottom is four times the centre)
Centre4(id) == Analysis.box[id].top + Analysis.box[id].bottom

\* The first position of the node in the node list
FirstIndex(id) == CHOOSE i \in 1..Len(Analysis.ids) :
                     Analysis.ids[i] = id /\ \A j \in 1..(i - 1) : Analysis.ids[j] # id

\* Does a come before b when the nodes are sorted by vertical centre, nodes of
\* the same centre keeping the order of the node list?
SortsBefore(a, b) ==
    \/ Centre4(a) < Centre4(b)
    \/ Centre4(a) = Centre4(b) /\ FirstIndex(a) < FirstIndex(b)

\* Are a and b in the same group (same container, or none), a directly
\* before b in the group's sorted order?
AdjacentInGroup(a, b) ==
    /\ parentGet(Analysis, a) = parentGet(Analysis, b)
    /\ SortsBefore(a, b)
    /\ ~\E c \in Boxed :
          /\ parentGet(Analysis, c) = parentGet(Analysis, a)
          /\ SortsBefore(a, c)
          /\ SortsBefore(c, b)

\* Do the horizontal extents of the two boxes overlap by more than 0?
HorizontalOverlap(a, b) ==
    Min2(Analysis.box[a].right, Analysis.box[b].right)
        > Max2(Analysis.box[a].left, Analysis.box[b].left)

\* Is the distance of the vertical centres at most 0.75 x the smaller height?
GapWithin(a, b) ==
    Abs(Centre4(b) - Centre4(a))
        <= 3 * Min2(Analysis.box[a].height, Analysis.box[b].height)

\* Does an inspected connector run from a to b?
ExplicitlyJoined(a, b) ==
    \E k \in 1..Len(connectors) : connectors[k].startItem = a /\ connectors[k].endItem = b

\* Is the item a node of height 80 whose centre is at the given y?
CentreHeight80(it, y) ==
    IsNodeItem(it) /\ it.posY = <<y>> /\ it.height = <<80>>

\* C23: with the nodes grouped by inferred container (those without one being
\* one group) and sorted by vertical centre (nodes of the same centre in the
\* order of the node list), there is an inferred edge from a to b exactly when
\* a is directly before b in the order of their group, their horizontal
\* extents overlap by more than 0, the distance of their vertical centres is
\* at most 0.75 x the smaller height and no explicit connector runs from a to
\* b; a is then not below b. No ordered pair has two inferred edges, and three
\* items of height 80 with their centres at y = 0, 100, 200 get no inferred
\* edge.
InvC23_InferredEdgesExactly ==
    FlowchartReturned =>
        /\ \A a, b \in Range(Analysis.ids) :
              (\E i \in 1..Len(InferredEdges) :
                  InferredEdges[i].fromId = a /\ InferredEdges[i].toId = b)
              <=> /\ a \in Boxed /\ b \in Boxed
                  /\ AdjacentInGroup(a, b)
                  /\ HorizontalOverlap(a, b)
                  /\ GapWithin(a, b)
                  /\ ~ExplicitlyJoined(a, b)
        /\ \A i \in 1..Len(InferredEdges) :
              /\ InferredEdges[i].fromId \in Boxed
              /\ InferredEdges[i].toId \in Boxed
              /\ Centre4(InferredEdges[i].fromId) <= Centre4(InferredEdges[i].toId)
              /\ \A j \in 1..Len(InferredEdges) :
                    /\ InferredEdges[i].fromId = InferredEdges[j].fromId
                    /\ InferredEdges[i].toId = InferredEdges[j].toId
                    => i = j
        /\ (/\ Len(items) = 3
            /\ \E i, j, k \in 1..3 :
                  /\ CentreHeight80(items[i], 0)
                  /\ CentreHeight80(items[j], 100)
                  /\ CentreHeight80(items[k], 200))
           => InferredEdges = <<>>

\* Three nodes in one group: the upper two got an inferred edge, the lower two
\* overlap horizontally but their centres are too far apart and got none
WitC23_PassingAndFailingGap ==
    /\ FlowchartReturned
    /\ \E a, b, c \in Boxed :
          /\ AdjacentInGroup(a, b) /\ AdjacentInGroup(b, c)
          /\ HorizontalOverlap(a, b) /\ HorizontalOverlap(b, c)
          /\ GapWithin(a, b) /\ ~GapWithin(b, c)
          /\ \E i \in 1..Len(InferredEdges) :
                InferredEdges[i].fromId = a /\ InferredEdges[i].toId = b
          /\ ~\E i \in 1..Len(InferredEdges) :
                InferredEdges[i].fromId = b /\ InferredEdges[i].toId = c

\* The areas of the nodes with a box, ascending
SortedAreas ==
    LET boxed == SelectSeq(Analysis.ids, LAMBDA id : Analysis.box[id].ok)
    IN StableSortByKey([i \in 1..Len(boxed) |-> [key |-> boxArea(Analysis.box[boxed[i]])]])

\* Twice the median of the areas as statistics defines it: the middle area of
\* an odd number of areas, the mean of the two middle areas of an even number
\* (0 when there is no area)
TwiceMedian ==
    LET n == Len(SortedAreas)
    IN IF n = 0 THEN 0
       ELSE IF n % 2 = 1 THEN 2 * SortedAreas[(n \div 2) + 1].key
       ELSE SortedAreas[n \div 2].key + SortedAreas[(n \div 2) + 1].key

\* The upper median of the areas: of the two middle areas of an even number,
\* the larger one (0 when there is no area)
UpperMedian ==
    IF Len(SortedAreas) = 0 THEN 0 ELSE SortedAreas[(Len(SortedAreas) \div 2) + 1].key

\* The cumulative area of the nodes that have a box and the colour
CumulativeArea(colour) ==
    sumAreas(Analysis, SelectSeq(Analysis.ids, LAMBDA id :
                           Analysis.box[id].ok /\ Analysis.color[id] = colour))

\* The colours of the nodes with a box
BoxedColours == {Analysis.color[id] : id \in Boxed} \ {""}

\* The colours whose cumulative area is at least 0.3 x the largest cumulative
\* area of a colour
TopColours ==
    {col \in BoxedColours :
        \A other \in BoxedColours : 10 * CumulativeArea(col) >= 3 * CumulativeArea(other)}

\* Is the block of lines subgraph sg_<alias> / <alias> / end in the text?
OwnSubgraphs(alias) ==
    {k \in 1..(Len(response.mermaid) - 2) :
        /\ response.mermaid[k].kind = "subgraph" /\ response.mermaid[k].a = alias
        /\ response.mermaid[k + 1].kind = "member" /\ response.mermaid[k + 1].a = alias
        /\ response.mermaid[k + 2].kind = "end"}

\* C24 as stated, the median being that of statistics: a node with a box is a
\* region exactly when its area is at least 3 x the median, or its colour is a
\* top colour and its area is at least 0.5 x the median.
CexC24_RegionByMedian ==
    FlowchartReturned =>
        \A id \in Boxed :
            id \in Range(Analysis.regionIds)
            <=> \/ 2 * boxArea(Analysis.box[id]) >= 3 * TwiceMedian
                \/ /\ Analysis.color[id] \in TopColours
                   /\ 4 * boxArea(Analysis.box[id]) >= TwiceMedian

\* C24: with m the upper median of the areas of the nodes with a box (the
\* area at position floor(n / 2) of the n areas in ascending order, counted
\* from 0), a node is a region exactly when it has a box, m is positive, and
\* its area is at least 3 x m or its colour is a top colour (cumulative area
\* at least 0.3 x the largest cumulative area of a colour) and its area is at
\* least 0.5 x m; every region that is no container has its own subgraph
\* block, holding its alias, in the text.
InvC24_RegionByUpperMedian ==
    FlowchartReturned =>
        /\ \A id \in Range(Analysis.ids) :
              id \in Range(Analysis.regionIds)
              <=> /\ id \in Boxed
                  /\ UpperMedian > 0
                  /\ \/ boxArea(Analysis.box[id]) >= 3 * UpperMedian
                     \/ /\ Analysis.color[id] \in TopColours
                        /\ 2 * boxArea(Analysis.box[id]) >= UpperMedian
        /\ \A id \in Range(Analysis.regionIds) :
              ~childrenHas(Analysis, id) =>
                  Cardinality(OwnSubgraphs(idToAlias(Analysis, id))) = 1

\* One region by its size alone and one by its colour alone, the latter
\* without children and with its own subgraph
WitC24_RegionBySizeAndByColour ==
    /\ FlowchartReturned
    /\ \E a, b \in Range(Analysis.regionIds) :
          /\ boxArea(Analysis.box[a]) >= 3 * UpperMedian
          /\ Analysis.color[a] \notin TopColours
          /\ boxArea(Analysis.box[b]) < 3 * UpperMedian
          /\ ~childrenHas(Analysis, b)
          /\ OwnSubgraphs(idToAlias(Analysis, b)) # {}

\* The lines of the text that list the alias as a member of a subgraph block
MemberLinesOf(alias) ==
    {k \in 1..Len(response.mermaid) :
        response.mermaid[k].kind = "member" /\ response.mermaid[k].a = alias}

\* C25: in the flowchart text every node alias is listed as a member of at
\* most one subgraph block: no alias has two member lines.
CexC25_AliasInOneSubgraph ==
    FlowchartReturned =>
        \A n \in 1..Len(response.nodes) : Cardinality(MemberLinesOf(n)) <= 1

\* What the text does guarantee: an alias has at most two member lines, one in
\* the block of the node's container and one in the node's own region block,
\* and it has both exactly when the node is a region inside a container and
\* contains nothing itself.
MemberLinesPerAlias ==
    FlowchartReturned =>
        \A n \in 1..Len(response.nodes) :
            LET id == response.nodes[n].id
            IN Cardinality(MemberLinesOf(n))
                 = (IF parentGet(Analysis, id) # 0 /\ ~childrenHas(Analysis, id) THEN 1 ELSE 0)
                   + (IF id \in Range(Analysis.regionIds) /\ ~childrenHas(Analysis, id)
                      THEN 1 ELSE 0)

\* How many subgraph blocks are open before line k of the text?
Depth(k) ==
    Cardinality({j \in 1..(k - 1) : response.mermaid[j].kind = "subgraph"})
    - Cardinality({j \in 1..(k - 1) : response.mermaid[j].kind = "end"})

\* The subgraph line of the innermost block that line k is in (0: none)
EnclosingBlock(k) ==
    LET opens == {j \in 1..(k - 1) :
                     /\ response.mermaid[j].kind = "subgraph"
                     /\ Depth(j) = Depth(k) - 1}
    IN IF opens = {} THEN 0 ELSE CHOOSE j \in opens : \A i \in opens : i <= j

\* The subgraph lines sg_<alias> of the text
BlocksOf(alias) ==
    {k \in 1..Len(response.mermaid) :
        response.mermaid[k].kind = "subgraph" /\ response.mermaid[k].a = alias}

\* The lines directly inside the block opened at line k that stand for the
\* alias: its member line or its own subgraph line
EntriesIn(k, alias) ==
    {m \in 1..Len(response.mermaid) :
        /\ response.mermaid[m].kind \in {"member", "subgraph"}
        /\ response.mermaid[m].a = alias
        /\ EnclosingBlock(m) = k}

\* C26: for each child C with container P the text has exactly one subgraph
\* block for P; the block is directly inside the block of P's own container
\* when P has one and directly inside the root subgraph otherwise; and C is
\* directly inside P's block exactly once, as its own subgraph block when C is
\* a container itself and as its alias line otherwise.
InvC26_ContainmentRendered ==
    FlowchartReturned =>
        \A c \in Range(Analysis.ids) :
            LET P == parentGet(Analysis, c)
            IN P # 0 =>
                /\ Cardinality(BlocksOf(idToAlias(Analysis, P))) = 1
                /\ \A k \in BlocksOf(idToAlias(Analysis, P)) :
                      /\ EnclosingBlock(k) # 0
                      /\ response.mermaid[EnclosingBlock(k)].a
                            = (IF parentGet(Analysis, P) # 0
                               THEN idToAlias(Analysis, parentGet(Analysis, P))
                               ELSE 0)
                      /\ Cardinality(EntriesIn(k, idToAlias(Analysis, c))) = 1
                      /\ \A m \in EntriesIn(k, idToAlias(Analysis, c)) :
                            response.mermaid[m].kind = "subgraph" <=> childrenHas(Analysis, c)

\* A container inside a container: its block is nested in the outer block and
\* holds the alias line of its own child
WitC26_NestedBlock ==
    /\ FlowchartReturned
    /\ \E c \in Range(Analysis.ids) :
          /\ parentGet(Analysis, c) # 0
          /\ parentGet(Analysis, parentGet(Analysis, c)) # 0
          /\ \E k \in BlocksOf(idToAlias(Analysis, parentGet(Analysis, c))) :
                /\ Depth(k) = 2
                /\ \E m \in EntriesIn(k, idToAlias(Analysis, c)) :
                      response.mermaid[m].kind = "member"

\* C27: all requests of one frame_to_mermaid or frame_to_erd call (frame
\* title, frame metadata, item pages, connector pages) go to one board, the
\* one resolved when the call arrived, whatever set_active_board calls end
\* in between; a call that was rejected for its board has sent nothing.
InvC27_OneBoardPerCall ==
    /\ \A l, m \in httpLog : l.call = m.call => l.board = m.board
    /\ \A l \in httpLog :
          /\ calls[l.call].state # "invalid"
          /\ IsFrameTool(calls[l.call].tool) =>
                /\ l.board = calls[l.call].boardId
                /\ l.board = (IF HasBoardIdArg(calls[l.call])
                              THEN Trim(calls[l.call].args.board_id[1])
                              ELSE calls[l.call].activeAtEntry)

\* A frame call without board_id issued a request while the active board was
\* no longer the one the call had resolved, and has sent all its requests
WitC27_RequestAfterBoardChange ==
    \E c \in 1..Len(calls) :
        /\ IsFrameTool(calls[c].tool)
        /\ ~HasBoardIdArg(calls[c])
        /\ calls[c].state = "returned"
        /\ Cardinality({l \in httpLog : l.call = c}) = Len(requestKinds(calls[c].tool))
        /\ \E l \in httpLog : l.call = c /\ l.active # l.board

\* The requests for children of a frame issued so far
ChildrenRequests == {i \in 1..Len(requests) : requests[i].kind = "children"}

\* No page of a frame's children was requested twice: each frame's children
\* are fetched in one run over its pages.
NoFrameRequestedTwice ==
    \A i, j \in ChildrenRequests :
        /\ requests[i].frame = requests[j].frame
        /\ requests[i].cursor = requests[j].cursor
        => i = j

\* The call has returned its diagram or thrown its error.
CallEnded == pc \in {"returned", "thrown"}

\* C28: the traversal of frame_to_mermaid requests the children of each frame
\* at most once (no page of a frame twice), and the call ends on every board,
\* also where frames name each other as parents in a cycle or where a seed
\* frame that lies within the root frame is a child of the root as well.
PropC28_TraversalEndsNoFrameTwice == []NoFrameRequestedTwice /\ <>CallEnded

\* The call returned on a board where the root frame and frame 2 name each
\* other as parents and frame 2 lies within the root: frame 2 was a seed and
\* was found again among the root's children, and the children of both
\* frames were requested.
WitC28_CyclicParentsReturned ==
    /\ pc = "returned"
    /\ \E i, j \in 1..Len(board.items) :
          /\ board.items[i].id = args.frame_id
          /\ board.items[i].type = "frame" /\ board.items[j].type = "frame"
          /\ board.items[i].parent = board.items[j].id
          /\ board.items[j].parent = board.items[i].id
          /\ board.items[j].id \in Range(seedFrameIds)
          /\ \E k \in 1..Len(items) : items[k].id = board.items[j].id
          /\ \E k \in 1..Len(items) : items[k].id = board.items[i].id
          /\ \E r \in ChildrenRequests : requests[r].frame = board.items[i].id
          /\ \E r \in ChildrenRequests : requests[r].frame = board.items[j].id

\* C29: two distinct entities of the returned ER diagram never have the same
\* entity name.
CexC29_EntityNamesDistinct ==
    ErdReturned =>
        \A i, j \in 1..Len(response.entities) :
            response.entities[i].entityName = response.entities[j].entityName => i = j

\* What the names do guarantee: the entities are distinct items, each name is
\* not empty and made of letters, digits and underscores, starting with no
\* digit; two entities of the same label have the same name.
EntityNamesWellFormed ==
    ErdReturned =>
        \A i, j \in 1..Len(response.entities) :
            /\ response.entities[i].id = response.entities[j].id => i = j
            /\ response.entities[i].entityName # <<>>
            /\ \A k \in 1..Len(response.entities[i].entityName) :
                  \/ IsAlnum(response.entities[i].entityName[k])
                  \/ response.entities[i].entityName[k] = "_"
            /\ response.entities[i].entityName[1] \notin Range(DigitChars)
            /\ response.entities[i].label = response.entities[j].label /\ i <= j
                  /\ response.entities[i].label # <<"-">>
                  => response.entities[i].entityName = response.entities[j].entityName

\* C30: under any interleaving of concurrent tool calls of mcp-365, at most
\* one auth provider is created and all the calls that got a client got the
\* same GraphClient instance.
CexC30_OneProviderOneClient ==
    /\ authProviders <= 1
    /\ \A c, d \in 1..Len(handlerCalls) :
          handlerCalls[c].client # 0 /\ handlerCalls[d].client # 0
              => handlerCalls[c].client = handlerCalls[d].client

\* What the code does guarantee: every client has its own provider, the calls
\* that find graphClient set use the instance assigned last, and a call is
\* stopped only by the failedEndpoints of its own client.
ClientsWellFormed ==
    /\ authProviders = Len(graphClients)
    /\ graphClient = Len(graphClients)
    /\ \A k \in 1..Len(graphClients) : graphClients[k].authProvider = k
    /\ \A c \in 1..Len(handlerCalls) :
          /\ handlerCalls[c].client \in 0..Len(graphClients)
          /\ handlerCalls[c].state = "auth" <=> (handlerCalls[c].client = 0 /\ ~handlerCalls[c].thrown)
          /\ handlerCalls[c].blocked =>
                isEndpointBlocked(graphClients[handlerCalls[c].client].failedEndpoints,
                                  handlerCalls[c].endpoint)

=============================================================================
